---- MODULE Spec2Model ----
(***************************************************************************)
(* Model of the two core subsystems of Orbit:                              *)
(*   - LinuxTracing::PerfEventQueue / PerfEventProcessor                   *)
(*     (src/OrbitLinuxTracing/PerfEventProcessor.h), the k-way merger of   *)
(*     perf_event_open ring buffers and its delayed dispatch;              *)
(*   - orbit_vulkan_layer::CommandBufferManager                            *)
(*     (src/OrbitVulkanLayer/CommandBufferManager.cpp) and TimerQueryPool  *)
(*     (src/OrbitVulkanLayer/TimerQueryPool.h), the GPU submission tracker *)
(*     and its pool of timestamp query slots.                              *)
(* PerfEventProcessor.cpp and TimerQueryPool.cpp are not part of the       *)
(* sources at hand: the bodies of their methods follow spec.md (sections   *)
(* 4.1-4.3); the declarations, the comparator and the constants follow the *)
(* headers.                                                                *)
(***************************************************************************)
EXTENDS Integers, Sequences, FiniteSets, TLC

(***************************************************************************)
(* Bounds of the model.                                                    *)
(***************************************************************************)
\* Total number of events pushed into the merger in one behaviour.
MaxEvents == 3
\* The monotonic clock advances at most this many times.
MaxTicks == 1
\* Granularity of the clock and of event timestamps, in milliseconds.
TimeStep == 50

\* PerfEventProcessor::kProcessingDelayMs (the spec's SAFETY_DELAY).
kProcessingDelayMs == 100

\* File descriptors of the perf_event_open ring buffers (the sources).
Fds == {1, 2, 3}

\* TimerQueryPool::kNumLogicalQuerySlots is 16384; the model's pools are this small.
kNumLogicalQuerySlots == 4
\* Total number of vkQueueSubmit calls (DoPreSubmitQueue/DoPostSubmitQueue pairs).
MaxSubmitCalls == 2
\* Debug markers recorded into one command buffer.
MaxMarkers == 1
\* Total number of recordings begun (MarkCommandBufferBegin calls).
MaxRecordings == 2
\* VkSubmitInfos passed to one vkQueueSubmit call.
MaxSubmitInfos == 2

Devices == {"d1", "d2"}
CommandPools == {"p1", "p2"}
CommandBuffers == {"cb1", "cb2"}
\* A command buffer of another command pool, recorded by another thread.
OtherCommandBuffers == {"cb3"}
AllCommandBuffers == CommandBuffers \cup OtherCommandBuffers
Queues == {"q1", "q2"}
Texts == {"a", "b"}
Slots == 0..(kNumLogicalQuerySlots - 1)

\* A std::optional, and the entry of a map for a key, are sets of at most one
\* value: nullopt is the absent optional and the absent entry.
nullopt == {}
Some(v) == {v}
Value(optional) == CHOOSE v \in optional : TRUE

(***************************************************************************)
(* State.                                                                  *)
(***************************************************************************)
VARIABLES
  \* ---- PerfEventQueue ----
  fd_event_queues,     \* fd -> FIFO of events; <<>> = fd absent from the map
  event_queues_queue,  \* the std::priority_queue's vector (a binary heap) of fds
  \* ---- PerfEventProcessor ----
  last_processed_timestamp,
  discarded_out_of_order_counter,
  visited,             \* events handed to the visitors, in dispatch order
  \* ---- environment of the merger ----
  now,                 \* MonotonicTimestamp, in ms
  pushed,              \* every event pushed so far, in push order
  popped,              \* events returned by direct PopEvent calls, in order, each
                       \* with the number of events pushed before the call
  sourcesMonotonic,    \* every fd has pushed in non-decreasing timestamp order
  skewBounded,         \* no event was pushed later than kProcessingDelayMs after its timestamp
  stream               \* "open"; "drained" once ProcessAllEvents has run; "reopened"
                       \* once an event was pushed after that

mergerVars == <<fd_event_queues, event_queues_queue, last_processed_timestamp,
                discarded_out_of_order_counter, visited, now, pushed, popped,
                sourcesMonotonic, skewBounded, stream>>

VARIABLES
  \* ---- CommandBufferManager ----
  pool_to_command_buffers,   \* pool -> set of command buffers, or nullopt
  command_buffer_to_device,  \* command buffer -> device, or nullopt
  command_buffer_to_state,   \* command buffer -> CommandBufferState, or nullopt
  queue_to_submissions,      \* queue -> list of QueueSubmission, or nullopt
  queue_to_markers,          \* queue -> marker stack (top last)
  \* ---- TimerQueryPool ----
  device_to_query_slots,     \* device -> slot -> SlotState
  device_to_potential_next_free_index,
  \* ---- collaborators ----
  is_capturing,              \* connector_->IsCapturing()
  gpu_queries,               \* device -> slot -> state of the GPU's query
  written,                   \* the submissions handed to writer_->WriteQueueSubmission,
                             \* in order, each named by the call that submitted it
  fatal,                     \* a CHECK failed or an exception escaped: the process aborted
  \* ---- calls in progress ----
  in_submit,                 \* queue -> the vkQueueSubmit call between its pre and post hook
  num_submit_calls,
  num_recordings,
  ended,                     \* the command buffers with tracker state whose recording
                             \* the application has ended (MarkCommandBufferEnd returned)
  calls                      \* the calls of MarkCommandBufferBegin, MarkCommandBufferEnd
                             \* and ResetCommandPool that threads make lock section by
                             \* lock section: where each is, and its local variables

\* What the hooks of the manager read and write.
hookVars == <<pool_to_command_buffers, command_buffer_to_device,
              command_buffer_to_state, queue_to_submissions, queue_to_markers,
              device_to_query_slots, device_to_potential_next_free_index,
              is_capturing, gpu_queries, written, fatal, in_submit,
              num_submit_calls, num_recordings>>

trackerVars == <<hookVars, ended, calls>>

vars == <<mergerVars, trackerVars>>

(***************************************************************************)
(* Helpers on sequences.                                                   *)
(***************************************************************************)
Range(s) == {s[i] : i \in 1..Len(s)}

IsSortedByTs(s) == \A i \in 1..Len(s) : \A j \in i..Len(s) : s[i].ts <= s[j].ts

(***************************************************************************)
(* PerfEventQueue: a priority queue of per-fd FIFOs.                       *)
(***************************************************************************)
\* The comparator with its comparison turned around: a heap with the newest front
\* on top.
QueueFrontTimestampCompareMutant(q, lhs, rhs) == Head(q[lhs]).ts < Head(q[rhs]).ts

\* QueueFrontTimestampReverseCompare: lhs.front().ts > rhs.front().ts
QueueFrontTimestampReverseCompare(q, lhs, rhs) == Head(q[lhs]).ts > Head(q[rhs]).ts

\* std::push_heap on the 0-based array h with the hole at index hole: the value v
\* moves up while its parent compares "less" (comp(parent, v)).
RECURSIVE PushHeap(_, _, _, _)
PushHeap(q, h, hole, v) ==
  LET parent == (hole - 1) \div 2 IN
  IF hole > 0 /\ QueueFrontTimestampReverseCompare(q, h[parent + 1], v)
  THEN PushHeap(q, [h EXCEPT ![hole + 1] = h[parent + 1]], parent, v)
  ELSE [h EXCEPT ![hole + 1] = v]

\* std::__adjust_heap, first loop: the hole moves down to a leaf, each time to the
\* child that does not compare "less" than its sibling.
RECURSIVE AdjustHeapDown(_, _, _, _)
AdjustHeapDown(q, h, n, hole) ==
  IF hole < (n - 1) \div 2
  THEN LET right == 2 * (hole + 1)
           child == IF QueueFrontTimestampReverseCompare(q, h[right + 1], h[right])
                    THEN right - 1 ELSE right
       IN AdjustHeapDown(q, [h EXCEPT ![hole + 1] = h[child + 1]], n, child)
  ELSE IF n % 2 = 0 /\ hole = (n - 2) \div 2
  THEN [heap |-> [h EXCEPT ![hole + 1] = h[2 * (hole + 1)]], hole |-> 2 * (hole + 1) - 1]
  ELSE [heap |-> h, hole |-> hole]

\* push without push_heap: the new element stays at the back.
HeapPushMutant(q, h, v) == Append(h, v)

\* std::priority_queue::push: push_back, then push_heap.
HeapPush(q, h, v) == PushHeap(q, Append(h, v), Len(h), v)

\* std::priority_queue::pop: pop_heap (the last element takes the root's place and
\* is sifted), then pop_back.
HeapPop(q, h) ==
  LET n == Len(h) - 1 IN
  IF n = 0 THEN <<>>
  ELSE LET v    == h[n + 1]
           body == SubSeq(h, 1, n)
           down == AdjustHeapDown(q, body, n, 0)
       IN PushHeap(q, down.heap, down.hole, v)

\* PerfEventQueue::HasEvent
HasEvent(h) == h # <<>>

\* PerfEventQueue::TopEvent
TopEvent(q, h) == Head(q[h[1]])

\* PerfEventQueue::PushEvent: append to the fd's FIFO; a fd without a FIFO gets one
\* and enters the heap.
PushEvent(q, h, fd, event) ==
  IF q[fd] # <<>>
  THEN [queues |-> [q EXCEPT ![fd] = Append(@, event)], heap |-> h]
  ELSE LET q2 == [q EXCEPT ![fd] = <<event>>]
       IN [queues |-> q2, heap |-> HeapPush(q2, h, fd)]

\* PerfEventQueue::PopEvent: the winning (fd, FIFO) pair leaves the heap, its front
\* is popped, and the pair is re-inserted unless its FIFO is now empty.
PopEvent(q, h) ==
  LET top_fd == h[1]
      h2     == HeapPop(q, h)
      q2     == [q EXCEPT ![top_fd] = Tail(@)]
  IN [event  |-> Head(q[top_fd]),
      queues |-> q2,
      heap   |-> IF q2[top_fd] = <<>> THEN h2 ELSE HeapPush(q2, h2, top_fd)]

(***************************************************************************)
(* PerfEventProcessor.                                                     *)
(***************************************************************************)
\* The guard that also discards an event as old as the last one processed.
ProcessEventMutant(st, event) ==
  IF event.ts <= st.last
  THEN [st EXCEPT !.discarded = @ + 1]
  ELSE [st EXCEPT !.last = event.ts, !.visited = Append(@, event)]

\* The out-of-order guard applied to an event taken from the queue.
ProcessEvent(st, event) ==
  IF event.ts < st.last
  THEN [st EXCEPT !.discarded = @ + 1]
  ELSE [st EXCEPT !.last = event.ts, !.visited = Append(@, event)]

\* Whether the loop of ProcessOldEvents stops at an event: it is too recent.
TooRecentMutant(event, max_timestamp) == event.ts > max_timestamp + TimeStep

TooRecent(event, max_timestamp) == event.ts > max_timestamp

\* The processing loop: events are taken from the queue, oldest first, while the
\* top event's timestamp is at most max_timestamp.
RECURSIVE ProcessLoop(_, _, _)
ProcessLoop(st, bounded, max_timestamp) ==
  IF ~HasEvent(st.heap) THEN st
  ELSE IF bounded /\ TooRecent(TopEvent(st.queues, st.heap), max_timestamp) THEN st
  ELSE LET p == PopEvent(st.queues, st.heap)
       IN ProcessLoop(ProcessEvent([st EXCEPT !.queues = p.queues, !.heap = p.heap],
                                   p.event),
                      bounded, max_timestamp)

ProcessorState ==
  [queues |-> fd_event_queues, heap |-> event_queues_queue,
   last |-> last_processed_timestamp, discarded |-> discarded_out_of_order_counter,
   visited |-> visited]

SetProcessorState(st) ==
  /\ fd_event_queues' = st.queues
  /\ event_queues_queue' = st.heap
  /\ last_processed_timestamp' = st.last
  /\ discarded_out_of_order_counter' = st.discarded
  /\ visited' = st.visited

\* The timestamps an event pushed at the current time can carry.
Timestamps == {t * TimeStep : t \in 0..(now \div TimeStep)}

LastPushedTs(fd) ==
  LET idx == {i \in 1..Len(pushed) : pushed[i].fd = fd}
  IN IF idx = {} THEN 0
     ELSE pushed[CHOOSE i \in idx : \A j \in idx : j <= i].ts

\* PerfEventProcessor::AddEvent(origin_fd, event)
AddEvent(fd, ts) ==
  /\ Len(pushed) < MaxEvents
  /\ LET event == [ts |-> ts, fd |-> fd, id |-> Len(pushed) + 1]
         r     == PushEvent(fd_event_queues, event_queues_queue, fd, event)
     IN /\ fd_event_queues' = r.queues
        /\ event_queues_queue' = r.heap
        /\ pushed' = Append(pushed, event)
  /\ sourcesMonotonic' = (sourcesMonotonic /\ ts >= LastPushedTs(fd))
  /\ skewBounded' = (skewBounded /\ ts + kProcessingDelayMs >= now)
  /\ stream' = (IF stream = "open" THEN "open" ELSE "reopened")
  /\ UNCHANGED <<last_processed_timestamp, discarded_out_of_order_counter, visited,
                 now, popped>>
  /\ UNCHANGED trackerVars

\* PerfEventProcessor::ProcessAllEvents
ProcessAllEvents ==
  /\ SetProcessorState(ProcessLoop(ProcessorState, FALSE, 0))
  /\ stream' = (IF stream = "open" THEN "drained" ELSE stream)
  /\ UNCHANGED <<now, pushed, popped, sourcesMonotonic, skewBounded>>
  /\ UNCHANGED trackerVars

\* PerfEventProcessor::ProcessOldEvents
ProcessOldEvents ==
  /\ SetProcessorState(ProcessLoop(ProcessorState, TRUE, now - kProcessingDelayMs))
  /\ UNCHANGED <<now, pushed, popped, sourcesMonotonic, skewBounded, stream>>
  /\ UNCHANGED trackerVars

\* The monotonic clock advances.
Tick ==
  /\ now < kProcessingDelayMs + MaxTicks * TimeStep
  /\ now' = now + TimeStep
  /\ UNCHANGED <<fd_event_queues, event_queues_queue, last_processed_timestamp,
                 discarded_out_of_order_counter, visited, pushed, popped,
                 sourcesMonotonic, skewBounded, stream>>
  /\ UNCHANGED trackerVars

\* A direct client of PerfEventQueue pops the oldest event.
PopEventStep ==
  /\ HasEvent(event_queues_queue)
  /\ LET p == PopEvent(fd_event_queues, event_queues_queue)
     IN /\ fd_event_queues' = p.queues
        /\ event_queues_queue' = p.heap
        /\ popped' = Append(popped, [event |-> p.event, pushed_before |-> Len(pushed)])
  /\ UNCHANGED <<last_processed_timestamp, discarded_out_of_order_counter, visited,
                 now, pushed, sourcesMonotonic, skewBounded, stream>>
  /\ UNCHANGED trackerVars


(***************************************************************************)
(* TimerQueryPool.                                                         *)
(***************************************************************************)
kReadyForQueryIssue == "kReadyForQueryIssue"
kQueryPendingOnGPU == "kQueryPendingOnGPU"

\* A search that stops at the end of the pool instead of wrapping around.
RECURSIVE FindReadySlotMutant(_, _, _)
FindReadySlotMutant(slot_states, current_slot, start) ==
  IF slot_states[current_slot] = "kReadyForQueryIssue"
  THEN [found |-> TRUE, index |-> current_slot]
  ELSE IF current_slot + 1 = kNumLogicalQuerySlots THEN [found |-> FALSE, index |-> 0]
  ELSE FindReadySlotMutant(slot_states, current_slot + 1, start)

\* The search of NextReadyQuerySlot: from the cursor, one step at a time, until a
\* ready slot is found or the search is back at the cursor.
RECURSIVE FindReadySlot(_, _, _)
FindReadySlot(slot_states, current_slot, start) ==
  IF slot_states[current_slot] = kReadyForQueryIssue
  THEN [found |-> TRUE, index |-> current_slot]
  ELSE LET next_slot == (current_slot + 1) % kNumLogicalQuerySlots
       IN IF next_slot = start THEN [found |-> FALSE, index |-> 0]
          ELSE FindReadySlot(slot_states, next_slot, start)

\* TimerQueryPool::NextReadyQuerySlot(device, &allocated_index): the slot found
\* becomes pending and the cursor moves behind it.
NextReadyQuerySlot(slots, cursor, device) ==
  LET r == FindReadySlot(slots[device], cursor[device], cursor[device])
  IN IF r.found
     THEN [found |-> TRUE, index |-> r.index,
           slots |-> [slots EXCEPT ![device][r.index] = kQueryPendingOnGPU],
           cursor |-> [cursor EXCEPT ![device] = (r.index + 1) % kNumLogicalQuerySlots]]
     ELSE [found |-> FALSE, index |-> 0, slots |-> slots, cursor |-> cursor]

\* TimerQueryPool::ResetQuerySlots(device, slots): each slot is ready again.
ResetQuerySlots(slots, device, indices) ==
  [slots EXCEPT ![device] =
     [s \in Slots |-> IF s \in indices THEN kReadyForQueryIssue ELSE @[s]]]

\* A rollback that forgets the slots it is given.
RollbackPendingQuerySlotsMutant(slots, device, indices) == slots

\* TimerQueryPool::RollbackPendingQuerySlots(device, slots): the same transition,
\* for queries that were never submitted.
RollbackPendingQuerySlots(slots, device, indices) ==
  [slots EXCEPT ![device] =
     [s \in Slots |-> IF s \in indices THEN kReadyForQueryIssue ELSE @[s]]]

(***************************************************************************)
(* CommandBufferManager.                                                   *)
(***************************************************************************)
kDebugMarkerBegin == "kDebugMarkerBegin"
kDebugMarkerEnd == "kDebugMarkerEnd"

\* CommandBufferState{}: no slots, no markers.
EmptyCommandBufferState ==
  [command_buffer_begin_slot_index |-> nullopt,
   command_buffer_end_slot_index |-> nullopt,
   markers |-> <<>>]

\* The command buffers of a vkQueueSubmit call, in submission order.
RECURSIVE Flatten(_)
Flatten(submits) ==
  IF submits = <<>> THEN <<>> ELSE Head(submits) \o Flatten(Tail(submits))

\* The command buffers a vkQueueSubmit call in progress is using. Vulkan requires
\* external synchronization of a command buffer: no other call uses it meanwhile.
InSubmit(cb) ==
  \E q \in Queues :
     in_submit[q] # nullopt /\ cb \in Range(Value(in_submit[q]).command_buffers)

\* The command buffers whose recording has ended, after a step in which
\* MarkCommandBufferEnd returned for those of cbs: a command buffer whose tracker
\* state is gone is forgotten.
EndedAfter(cbs) ==
  ended' = {cb \in ended \cup cbs : command_buffer_to_state'[cb] # nullopt}

\* A failed CHECK (or an exception leaving the layer) aborts the process: the
\* layer's state is gone with it.
Abort ==
  /\ fatal' = TRUE
  /\ pool_to_command_buffers' = [p \in CommandPools |-> nullopt]
  /\ command_buffer_to_device' = [cb \in AllCommandBuffers |-> nullopt]
  /\ command_buffer_to_state' = [cb \in AllCommandBuffers |-> nullopt]
  /\ queue_to_submissions' = [q \in Queues |-> nullopt]
  /\ queue_to_markers' = [q \in Queues |-> <<>>]
  /\ device_to_query_slots' = [d \in Devices |-> [s \in Slots |-> kReadyForQueryIssue]]
  /\ device_to_potential_next_free_index' = [d \in Devices |-> 0]
  /\ in_submit' = [q \in Queues |-> nullopt]
  /\ UNCHANGED <<is_capturing, gpu_queries, written, num_submit_calls, num_recordings>>

\* CommandBufferManager::TrackCommandBuffers(device, pool, command_buffers, count)
TrackCommandBuffers(device, pool, cbs) ==
  /\ ~fatal
  /\ \A cb \in cbs : ~InSubmit(cb)
  /\ pool_to_command_buffers' =
       [pool_to_command_buffers EXCEPT
          ![pool] = Some((IF @ = nullopt THEN {} ELSE Value(@)) \cup cbs)]
  /\ command_buffer_to_device' =
       [cb \in AllCommandBuffers |->
          IF cb \in cbs THEN Some(device) ELSE command_buffer_to_device[cb]]
  /\ UNCHANGED <<command_buffer_to_state, queue_to_submissions, queue_to_markers,
                 device_to_query_slots, device_to_potential_next_free_index,
                 is_capturing, gpu_queries, written, fatal, in_submit,
                 num_submit_calls, num_recordings>>
  /\ EndedAfter({})
  /\ UNCHANGED <<mergerVars, calls>>

\* CommandBufferManager::UntrackCommandBuffers(device, pool, command_buffers, count)
UntrackCommandBuffers(device, pool, cbs) ==
  /\ ~fatal
  /\ \A cb \in cbs : ~InSubmit(cb)
  /\ IF \/ pool_to_command_buffers[pool] = nullopt
        \/ \E cb \in cbs : command_buffer_to_device[cb] # Some(device)
     THEN Abort
     ELSE /\ pool_to_command_buffers' =
               [pool_to_command_buffers EXCEPT
                  ![pool] = IF Value(@) \ cbs = {} THEN nullopt
                            ELSE Some(Value(@) \ cbs)]
          /\ command_buffer_to_device' =
               [cb \in AllCommandBuffers |->
                  IF cb \in cbs THEN nullopt ELSE command_buffer_to_device[cb]]
          /\ UNCHANGED <<command_buffer_to_state, queue_to_submissions,
                         queue_to_markers, device_to_query_slots,
                         device_to_potential_next_free_index, is_capturing,
                         gpu_queries, written, fatal, in_submit, num_submit_calls, num_recordings>>
  /\ EndedAfter({})
  /\ UNCHANGED <<mergerVars, calls>>

\* CommandBufferManager::MarkCommandBufferBegin(command_buffer)
MarkCommandBufferBegin(cb) ==
  /\ ~fatal
  /\ ~InSubmit(cb)
  /\ num_recordings < MaxRecordings
  /\ IF command_buffer_to_state[cb] # nullopt THEN Abort
     ELSE IF ~is_capturing
     THEN /\ command_buffer_to_state' =
               [command_buffer_to_state EXCEPT ![cb] = Some(EmptyCommandBufferState)]
          /\ num_recordings' = num_recordings + 1
          /\ UNCHANGED <<pool_to_command_buffers, command_buffer_to_device,
                         queue_to_submissions, queue_to_markers, device_to_query_slots,
                         device_to_potential_next_free_index, is_capturing,
                         gpu_queries, written, fatal, in_submit, num_submit_calls>>
     ELSE IF command_buffer_to_device[cb] = nullopt THEN Abort
     ELSE LET r == NextReadyQuerySlot(device_to_query_slots,
                                      device_to_potential_next_free_index,
                                      Value(command_buffer_to_device[cb]))
          IN IF ~r.found THEN Abort
             ELSE /\ device_to_query_slots' = r.slots
                  /\ device_to_potential_next_free_index' = r.cursor
                  /\ command_buffer_to_state' =
                       [command_buffer_to_state EXCEPT ![cb] =
                          Some([EmptyCommandBufferState EXCEPT
                                  !.command_buffer_begin_slot_index = Some(r.index)])]
                  /\ num_recordings' = num_recordings + 1
                  /\ UNCHANGED <<pool_to_command_buffers, command_buffer_to_device,
                                 queue_to_submissions, queue_to_markers, is_capturing,
                                 gpu_queries, written, fatal, in_submit,
                                 num_submit_calls>>
  /\ EndedAfter({})
  /\ UNCHANGED <<mergerVars, calls>>

\* CommandBufferManager::MarkCommandBufferEnd(command_buffer)
MarkCommandBufferEnd(cb) ==
  /\ ~fatal
  /\ ~InSubmit(cb)
  /\ IF ~is_capturing THEN UNCHANGED hookVars
     ELSE IF command_buffer_to_state[cb] = nullopt THEN Abort
     ELSE IF Value(command_buffer_to_state[cb]).command_buffer_begin_slot_index = nullopt
     THEN UNCHANGED hookVars
     ELSE IF command_buffer_to_device[cb] = nullopt THEN Abort
     ELSE LET r == NextReadyQuerySlot(device_to_query_slots,
                                      device_to_potential_next_free_index,
                                      Value(command_buffer_to_device[cb]))
          IN IF ~r.found THEN Abort
             ELSE /\ device_to_query_slots' = r.slots
                  /\ device_to_potential_next_free_index' = r.cursor
                  /\ command_buffer_to_state' =
                       [command_buffer_to_state EXCEPT
                          ![cb] = Some([Value(@) EXCEPT
                                          !.command_buffer_end_slot_index = Some(r.index)])]
                  /\ UNCHANGED <<pool_to_command_buffers, command_buffer_to_device,
                                 queue_to_submissions, queue_to_markers, is_capturing,
                                 gpu_queries, written, fatal, in_submit,
                                 num_submit_calls, num_recordings>>
  /\ EndedAfter({cb})
  /\ UNCHANGED <<mergerVars, calls>>

\* The command buffer, if it is being recorded, holds fewer than n markers: the
\* bound a specification puts on the markers recorded into one command buffer.
MarkerRoom(cb, n) ==
  command_buffer_to_state[cb] # nullopt
    => Len(Value(command_buffer_to_state[cb]).markers) < n

\* The common body of MarkDebugMarkerBegin and MarkDebugMarkerEnd: the marker is
\* appended, and under capture a slot is reserved and recorded on it.
MarkDebugMarker(cb, marker) ==
  /\ ~fatal
  /\ ~InSubmit(cb)
  /\ IF command_buffer_to_state[cb] = nullopt THEN Abort
     ELSE    IF ~is_capturing
             THEN /\ command_buffer_to_state' =
                       [command_buffer_to_state EXCEPT
                          ![cb] = Some([Value(@) EXCEPT !.markers = Append(@, marker)])]
                  /\ UNCHANGED <<pool_to_command_buffers, command_buffer_to_device,
                                 queue_to_submissions, queue_to_markers,
                                 device_to_query_slots,
                                 device_to_potential_next_free_index, is_capturing,
                                 gpu_queries, written, fatal, in_submit,
                                 num_submit_calls, num_recordings>>
             ELSE IF command_buffer_to_device[cb] = nullopt THEN Abort
             ELSE LET r == NextReadyQuerySlot(device_to_query_slots,
                                              device_to_potential_next_free_index,
                                              Value(command_buffer_to_device[cb]))
                  IN IF ~r.found THEN Abort
                     ELSE /\ device_to_query_slots' = r.slots
                          /\ device_to_potential_next_free_index' = r.cursor
                          /\ command_buffer_to_state' =
                               [command_buffer_to_state EXCEPT
                                  ![cb] = Some([Value(@) EXCEPT !.markers =
                                     Append(@, [marker EXCEPT
                                                  !.slot_index = Some(r.index)])])]
                          /\ UNCHANGED <<pool_to_command_buffers,
                                         command_buffer_to_device,
                                         queue_to_submissions, queue_to_markers,
                                         is_capturing, gpu_queries, written, fatal,
                                         in_submit, num_submit_calls, num_recordings>>
  /\ EndedAfter({})
  /\ UNCHANGED <<mergerVars, calls>>

\* CommandBufferManager::MarkDebugMarkerBegin(command_buffer, text)
MarkDebugMarkerBegin(cb, text) ==
  MarkDebugMarker(cb, [type |-> kDebugMarkerBegin, text |-> text, slot_index |-> nullopt])

\* CommandBufferManager::MarkDebugMarkerEnd(command_buffer)
MarkDebugMarkerEnd(cb) ==
  MarkDebugMarker(cb, [type |-> kDebugMarkerEnd, text |-> "", slot_index |-> nullopt])

\* A rollback that forgets the end slot.
SlotsToRollbackMutant(state) == state.command_buffer_begin_slot_index

\* The slots ResetCommandBuffer rolls back: the begin and the end slot, when set.
SlotsToRollback(state) ==
  state.command_buffer_begin_slot_index \cup state.command_buffer_end_slot_index

\* CommandBufferManager::ResetCommandBuffer(command_buffer), on the manager's state.
ResetCommandBufferState(st, cb) ==
  IF st.fatal \/ st.states[cb] = nullopt THEN st
  ELSE IF command_buffer_to_device[cb] = nullopt THEN [st EXCEPT !.fatal = TRUE]
  ELSE [st EXCEPT
          !.slots = RollbackPendingQuerySlots(@, Value(command_buffer_to_device[cb]),
                                              SlotsToRollback(Value(st.states[cb]))),
          !.states = [@ EXCEPT ![cb] = nullopt]]

ResetState ==
  [states |-> command_buffer_to_state, slots |-> device_to_query_slots, fatal |-> FALSE]

SetResetState(st) ==
  IF st.fatal THEN Abort
  ELSE /\ command_buffer_to_state' = st.states
       /\ device_to_query_slots' = st.slots
       /\ UNCHANGED <<pool_to_command_buffers, command_buffer_to_device,
                      queue_to_submissions, queue_to_markers,
                      device_to_potential_next_free_index, is_capturing, gpu_queries,
                      written, fatal, in_submit, num_submit_calls, num_recordings>>

\* CommandBufferManager::ResetCommandBuffer(command_buffer)
ResetCommandBuffer(cb) ==
  /\ ~fatal
  /\ ~InSubmit(cb)
  /\ SetResetState(ResetCommandBufferState(ResetState, cb))
  /\ EndedAfter({})
  /\ UNCHANGED <<mergerVars, calls>>

\* The loop of ResetCommandPool over the pool's command buffers (a hash set: the
\* order is the set's; the resets of different command buffers commute).
RECURSIVE ResetAll(_, _)
ResetAll(st, cbs) ==
  IF cbs = {} THEN st
  ELSE LET cb == CHOOSE c \in cbs : TRUE
       IN ResetAll(ResetCommandBufferState(st, cb), cbs \ {cb})

\* CommandBufferManager::ResetCommandPool(command_pool), with no call of another
\* thread between its lock sections (ResetPoolCopy and ResetPoolNext are the
\* sections one at a time).
ResetCommandPool(pool) ==
  /\ ~fatal
  /\ IF pool_to_command_buffers[pool] = nullopt THEN UNCHANGED hookVars
     ELSE /\ \A cb \in Value(pool_to_command_buffers[pool]) : ~InSubmit(cb)
          /\ SetResetState(ResetAll(ResetState, Value(pool_to_command_buffers[pool])))
  /\ EndedAfter({})
  /\ UNCHANGED <<mergerVars, calls>>

\* The capture is started or stopped.
ToggleCapture ==
  /\ ~fatal
  /\ is_capturing' = ~is_capturing
  /\ UNCHANGED <<pool_to_command_buffers, command_buffer_to_device,
                 command_buffer_to_state, queue_to_submissions, queue_to_markers,
                 device_to_query_slots, device_to_potential_next_free_index,
                 gpu_queries, written, fatal, in_submit, num_submit_calls, num_recordings>>
  /\ EndedAfter({})
  /\ UNCHANGED <<mergerVars, calls>>


\* The slots whose timestamp writes a command buffer has recorded.
RecordedSlots(state) ==
  state.command_buffer_begin_slot_index \cup state.command_buffer_end_slot_index
    \cup UNION {state.markers[i].slot_index : i \in 1..Len(state.markers)}

\* A query of the GPU's query pool: reset (no result, none to come), queued (its
\* timestamp write was submitted by vkQueueSubmit call number call) or available.
QueryReset == [status |-> "reset", call |-> 0]
QueryQueued(call) == [status |-> "queued", call |-> call]
QueryAvailable == [status |-> "available", call |-> 0]

\* The driver's vkQueueSubmit, called between the two hooks: the timestamp writes
\* recorded into the submitted command buffers are now queued on the GPU.
DriverQueueSubmit(cbs, call) ==
  [d \in Devices |-> [s \in Slots |->
     IF /\ gpu_queries[d][s] = QueryReset
        /\ \E i \in 1..Len(cbs) :
             /\ command_buffer_to_state[cbs[i]] # nullopt
             /\ command_buffer_to_device[cbs[i]] = Some(d)
             /\ s \in RecordedSlots(Value(command_buffer_to_state[cbs[i]]))
     THEN QueryQueued(call) ELSE gpu_queries[d][s]]]

\* The inner loop of DoPreSubmitQueue over the command buffers of one VkSubmitInfo.
RECURSIVE PreSubmitInfo(_, _)
PreSubmitInfo(acc, cbs) ==
  IF acc.fatal \/ cbs = <<>> THEN acc
  ELSE IF command_buffer_to_state[Head(cbs)] = nullopt THEN [acc EXCEPT !.fatal = TRUE]
  ELSE LET state == Value(command_buffer_to_state[Head(cbs)]) IN
       IF state.command_buffer_begin_slot_index = nullopt
       THEN PreSubmitInfo(acc, Tail(cbs))
       ELSE IF state.command_buffer_end_slot_index = nullopt
       THEN [acc EXCEPT !.fatal = TRUE]
       ELSE PreSubmitInfo(
              [acc EXCEPT !.command_buffers =
                 Append(@, [command_buffer_begin_slot_index |->
                              Value(state.command_buffer_begin_slot_index),
                            command_buffer_end_slot_index |->
                              Value(state.command_buffer_end_slot_index)])],
              Tail(cbs))

\* The outer loop of DoPreSubmitQueue over the VkSubmitInfos.
RECURSIVE PreSubmitInfos(_, _)
PreSubmitInfos(acc, submits) ==
  IF acc.fatal \/ submits = <<>> THEN acc
  ELSE LET info == PreSubmitInfo([command_buffers |-> <<>>, fatal |-> FALSE],
                                 Head(submits))
       IN IF info.fatal THEN [acc EXCEPT !.fatal = TRUE]
          ELSE PreSubmitInfos(
                 [acc EXCEPT !.submit_infos = Append(@, info.command_buffers)],
                 Tail(submits))

\* CommandBufferManager::DoPreSubmitQueue(queue, submit_count, submits), followed
\* by the driver's vkQueueSubmit. call identifies the vkQueueSubmit call: it stands
\* for the thread id and the pre-submission timestamp of the meta information.
DoPreSubmitQueue(queue, submits) ==
  /\ ~fatal
  /\ in_submit[queue] = nullopt
  /\ num_submit_calls < MaxSubmitCalls
  /\ \A i \in 1..Len(Flatten(submits)) : ~InSubmit(Flatten(submits)[i])
  /\ LET call == num_submit_calls + 1
         r    == PreSubmitInfos([submit_infos |-> <<>>, fatal |-> FALSE], submits)
         queue_submission ==
           [meta_information |-> [call |-> call, post |-> 0],
            submit_infos |-> r.submit_infos,
            completed_markers |-> <<>>,
            num_begin_markers |-> 0]
     IN IF is_capturing /\ r.fatal THEN Abort
        ELSE /\ queue_to_submissions' =
                  IF is_capturing
                  THEN [queue_to_submissions EXCEPT
                          ![queue] = Some(Append(IF @ = nullopt THEN <<>> ELSE Value(@),
                                                 queue_submission))]
                  ELSE queue_to_submissions
             /\ in_submit' = [in_submit EXCEPT
                                ![queue] = Some([call |-> call,
                                                 command_buffers |-> Flatten(submits)])]
             /\ num_submit_calls' = call
             /\ gpu_queries' = DriverQueueSubmit(Flatten(submits), call)
             /\ UNCHANGED <<pool_to_command_buffers, command_buffer_to_device,
                            command_buffer_to_state, queue_to_markers,
                            device_to_query_slots,
                            device_to_potential_next_free_index, is_capturing,
                            written, fatal, num_recordings>>
  /\ EndedAfter({})
  /\ UNCHANGED <<mergerVars, calls>>

\* What a read through a dangling reference yields when it does not crash.
GarbageSubmission ==
  [meta_information |-> [call |-> 0, post |-> 0], submit_infos |-> <<>>,
   completed_markers |-> <<>>, num_begin_markers |-> 0]

GarbageMarkerState ==
  [text |-> "", begin_info |-> nullopt, end_info |-> nullopt, depth |-> 0]

\* A BEGIN case that counts the marker itself into its depth.
PostSubmitMarkerMutant(st, marker, ub) ==
  LET has_slot == st.sub # nullopt /\ marker.slot_index # nullopt
      submitted_marker ==
        IF has_slot
        THEN Some([meta_information |-> Value(st.sub).meta_information,
                   slot_index |-> Value(marker.slot_index)])
        ELSE nullopt
  IN IF marker.type = kDebugMarkerBegin
     THEN [st EXCEPT
             !.sub = IF has_slot
                     THEN Some([Value(@) EXCEPT !.num_begin_markers = @ + 1]) ELSE @,
             !.stack = Append(@, [text |-> marker.text,
                                  begin_info |-> submitted_marker,
                                  end_info |-> nullopt,
                                  depth |-> Len(st.stack) + 1])]
     ELSE IF st.stack = <<>> /\ ub = "crash" THEN [st EXCEPT !.fatal = TRUE]
     ELSE LET marker_state == IF st.stack = <<>> THEN GarbageMarkerState
                              ELSE st.stack[Len(st.stack)]
              popped_stack == IF st.stack = <<>> THEN <<>>
                              ELSE SubSeq(st.stack, 1, Len(st.stack) - 1)
          IN [st EXCEPT
                !.stack = popped_stack,
                !.sub = IF has_slot
                        THEN Some([Value(@) EXCEPT !.completed_markers =
                                     Append(@, [marker_state EXCEPT
                                                  !.end_info = submitted_marker])])
                        ELSE @]

\* One marker of a submitted command buffer in DoPostSubmitQueue. st.stack is the
\* queue's marker stack (top last), st.sub the QueueSubmission queue_submission
\* points to (nullopt: nullptr). top() and pop() of an empty std::stack are
\* undefined: the build either crashes (ub = "crash") or reads garbage and goes on.
PostSubmitMarker(st, marker, ub) ==
  LET has_slot == st.sub # nullopt /\ marker.slot_index # nullopt
      submitted_marker ==
        IF has_slot
        THEN Some([meta_information |-> Value(st.sub).meta_information,
                   slot_index |-> Value(marker.slot_index)])
        ELSE nullopt
  IN IF marker.type = kDebugMarkerBegin
     THEN [st EXCEPT
             !.sub = IF has_slot
                     THEN Some([Value(@) EXCEPT !.num_begin_markers = @ + 1]) ELSE @,
             !.stack = Append(@, [text |-> marker.text,
                                  begin_info |-> submitted_marker,
                                  end_info |-> nullopt,
                                  depth |-> Len(st.stack)])]
     ELSE IF st.stack = <<>> /\ ub = "crash" THEN [st EXCEPT !.fatal = TRUE]
     ELSE LET marker_state == IF st.stack = <<>> THEN GarbageMarkerState
                              ELSE st.stack[Len(st.stack)]
              popped_stack == IF st.stack = <<>> THEN <<>>
                              ELSE SubSeq(st.stack, 1, Len(st.stack) - 1)
          IN [st EXCEPT
                !.stack = popped_stack,
                !.sub = IF has_slot
                        THEN Some([Value(@) EXCEPT !.completed_markers =
                                     Append(@, [marker_state EXCEPT
                                                  !.end_info = submitted_marker])])
                        ELSE @]

\* A loop that goes through the markers of a command buffer last to first.
RECURSIVE PostSubmitMarkersMutant(_, _, _)
PostSubmitMarkersMutant(st, markers, ub) ==
  IF st.fatal \/ markers = <<>> THEN st
  ELSE PostSubmitMarkersMutant(PostSubmitMarker(st, markers[Len(markers)], ub),
                               SubSeq(markers, 1, Len(markers) - 1), ub)

\* The loop of DoPostSubmitQueue over the markers of one command buffer.
RECURSIVE PostSubmitMarkers(_, _, _)
PostSubmitMarkers(st, markers, ub) ==
  IF st.fatal \/ markers = <<>> THEN st
  ELSE PostSubmitMarkers(PostSubmitMarker(st, Head(markers), ub), Tail(markers), ub)

\* The loop of DoPostSubmitQueue over the submitted command buffers: the markers of
\* each are processed, then its state is erased.
RECURSIVE PostSubmitCommandBuffers(_, _, _)
PostSubmitCommandBuffers(st, cbs, ub) ==
  IF st.fatal \/ cbs = <<>> THEN st
  ELSE IF st.states[Head(cbs)] = nullopt THEN [st EXCEPT !.fatal = TRUE]
  ELSE LET after == PostSubmitMarkers(st, Value(st.states[Head(cbs)]).markers, ub)
       IN PostSubmitCommandBuffers(
            [after EXCEPT !.states = [@ EXCEPT ![Head(cbs)] = nullopt]],
            Tail(cbs), ub)

\* CommandBufferManager::DoPostSubmitQueue(queue, submit_count, submits), for the
\* vkQueueSubmit call in progress on the queue. back() of an empty vector is
\* undefined: the build crashes or hands out a reference to garbage, and what is
\* written through it is lost.
DoPostSubmitQueue(queue, ub) ==
  /\ ~fatal
  /\ in_submit[queue] # nullopt
  /\ LET has_submission == queue_to_submissions[queue] # nullopt /\ is_capturing
         submissions == IF has_submission THEN Value(queue_to_submissions[queue])
                        ELSE <<>>
         dangling == has_submission /\ submissions = <<>>
         queue_submission ==
           IF ~has_submission THEN nullopt
           ELSE IF dangling THEN Some(GarbageSubmission)
           ELSE Some(submissions[Len(submissions)])
         stamped ==
           IF queue_submission = nullopt THEN nullopt
           ELSE Some([Value(queue_submission) EXCEPT
                        !.meta_information.post = Value(in_submit[queue]).call])
         st == PostSubmitCommandBuffers(
                 [stack |-> queue_to_markers[queue], sub |-> stamped,
                  states |-> command_buffer_to_state, fatal |-> FALSE],
                 Value(in_submit[queue]).command_buffers, ub)
     IN IF (dangling /\ ub = "crash") \/ st.fatal THEN Abort
        ELSE /\ queue_to_markers' = [queue_to_markers EXCEPT ![queue] = st.stack]
             /\ queue_to_submissions' =
                  IF has_submission /\ ~dangling
                  THEN [queue_to_submissions EXCEPT
                          ![queue] = Some([Value(@) EXCEPT
                                             ![Len(submissions)] = Value(st.sub)])]
                  ELSE queue_to_submissions
             /\ command_buffer_to_state' = st.states
             /\ in_submit' = [in_submit EXCEPT ![queue] = nullopt]
             /\ UNCHANGED <<pool_to_command_buffers, command_buffer_to_device,
                            device_to_query_slots,
                            device_to_potential_next_free_index, is_capturing,
                            gpu_queries, written, fatal, num_submit_calls, num_recordings>>
  /\ EndedAfter({})
  /\ UNCHANGED <<mergerVars, calls>>

\* GetQueryPoolResults(device, query_pool, slot, ...) == VK_SUCCESS
QueryWorked(device, slot) == gpu_queries[device][slot] = QueryAvailable

\* The loop of CompleteSubmits that looks for the submission's last command buffer:
\* the reverse iterator it advances, and submit_infos.back() it reads each time.
\* "erase": no command buffer found; "complete": polled and ready; "keep": polled
\* and not ready.
RECURSIVE FindLastCommandBuffer(_, _, _)
FindLastCommandBuffer(device, submission, submit_info_reverse_it) ==
  IF submit_info_reverse_it > Len(submission.submit_infos) THEN "erase"
  ELSE LET submit_info == submission.submit_infos[Len(submission.submit_infos)] IN
       IF submit_info = <<>>
       THEN FindLastCommandBuffer(device, submission, submit_info_reverse_it + 1)
       ELSE IF QueryWorked(device,
                           submit_info[Len(submit_info)].command_buffer_end_slot_index)
       THEN "complete" ELSE "keep"

\* What CompleteSubmits does with one pending submission.
SubmissionVerdict(device, submission) ==
  IF submission.submit_infos = <<>> THEN "erase"
  ELSE FindLastCommandBuffer(device, submission, 1)

\* The loop of CompleteSubmits over the pending submissions of one queue: acc.kept
\* are those left pending, acc.completed those to emit.
RECURSIVE DrainQueue(_, _, _)
DrainQueue(device, acc, submissions) ==
  IF submissions = <<>> THEN acc
  ELSE LET verdict == SubmissionVerdict(device, Head(submissions)) IN
       DrainQueue(device,
                  [kept |-> IF verdict = "keep" THEN Append(acc.kept, Head(submissions))
                            ELSE acc.kept,
                   completed |-> IF verdict = "complete"
                                 THEN Append(acc.completed, Head(submissions))
                                 ELSE acc.completed],
                  Tail(submissions))

\* The loop of CompleteSubmits over queue_to_submissions_, in the order the hash
\* map iterates (the sequence order).
RECURSIVE DrainQueues(_, _, _)
DrainQueues(device, acc, order) ==
  IF order = <<>> THEN acc
  ELSE LET queue == Head(order)
           r == DrainQueue(device, [kept |-> <<>>, completed |-> acc.completed],
                           Value(acc.submissions[queue]))
       IN DrainQueues(device,
                      [submissions |-> [acc.submissions EXCEPT ![queue] = Some(r.kept)],
                       completed |-> r.completed],
                      Tail(order))

\* The slots to reset without the begin slots of the completed markers.
SlotsOfSubmissionMutant(submission) ==
  LET cbs == Flatten(submission.submit_infos)
      markers == submission.completed_markers
  IN UNION {{cbs[i].command_buffer_begin_slot_index,
             cbs[i].command_buffer_end_slot_index} : i \in 1..Len(cbs)}
     \cup {Value(markers[i].end_info).slot_index : i \in 1..Len(markers)}

\* The slots CompleteSubmits reads for the record of one completed submission, and
\* then resets: of each command buffer, and of each completed marker.
SlotsOfSubmission(submission) ==
  LET cbs == Flatten(submission.submit_infos)
      markers == submission.completed_markers
  IN UNION {{cbs[i].command_buffer_begin_slot_index,
             cbs[i].command_buffer_end_slot_index} : i \in 1..Len(cbs)}
     \cup {Value(markers[i].end_info).slot_index : i \in 1..Len(markers)}
     \cup {Value(markers[i].begin_info).slot_index :
             i \in {j \in 1..Len(markers) : markers[j].begin_info # nullopt}}

SlotsOfSubmissions(submissions) ==
  UNION {SlotsOfSubmission(submissions[i]) : i \in 1..Len(submissions)}

\* The orders in which a hash map can iterate over the queues it holds.
QueueOrders ==
  LET present == {q \in Queues : queue_to_submissions[q] # nullopt}
  IN {order \in [1..Cardinality(present) -> present] :
        \A i, j \in 1..Cardinality(present) : i # j => order[i] # order[j]}

\* CommandBufferManager::CompleteSubmits(device)
CompleteSubmits(device, order) ==
  /\ ~fatal
  /\ order \in QueueOrders
  /\ LET r == DrainQueues(device,
                          [submissions |-> queue_to_submissions, completed |-> <<>>],
                          order)
         query_slots_to_reset == SlotsOfSubmissions(r.completed)
     IN IF \E s \in query_slots_to_reset : ~QueryWorked(device, s) THEN Abort
        ELSE /\ queue_to_submissions' = r.submissions
             /\ written' = written \o [i \in 1..Len(r.completed) |->
                                         [call |-> r.completed[i].meta_information.call,
                                          slots |-> SlotsOfSubmission(r.completed[i])]]
             /\ device_to_query_slots' =
                  ResetQuerySlots(device_to_query_slots, device, query_slots_to_reset)
             /\ gpu_queries' =
                  [gpu_queries EXCEPT ![device] =
                     [s \in Slots |-> IF s \in query_slots_to_reset
                                      THEN QueryReset ELSE @[s]]]
             /\ UNCHANGED <<pool_to_command_buffers, command_buffer_to_device,
                            command_buffer_to_state, queue_to_markers,
                            device_to_potential_next_free_index, is_capturing,
                            fatal, in_submit, num_submit_calls, num_recordings>>
  /\ EndedAfter({})
  /\ UNCHANGED <<mergerVars, calls>>

\* The GPU finishes the command buffers of one vkQueueSubmit call: the results of
\* the timestamp writes they recorded become available. The calls may finish in
\* any order.
GpuExecute(call) ==
  /\ ~fatal
  /\ \E d \in Devices, s \in Slots : gpu_queries[d][s] = QueryQueued(call)
  /\ gpu_queries' =
       [d \in Devices |-> [s \in Slots |->
          IF gpu_queries[d][s] = QueryQueued(call) THEN QueryAvailable
          ELSE gpu_queries[d][s]]]
  /\ UNCHANGED <<pool_to_command_buffers, command_buffer_to_device,
                 command_buffer_to_state, queue_to_submissions, queue_to_markers,
                 device_to_query_slots, device_to_potential_next_free_index,
                 is_capturing, written, fatal, in_submit, num_submit_calls, num_recordings>>
  /\ EndedAfter({})
  /\ UNCHANGED <<mergerVars, calls>>

(***************************************************************************)
(* Calls made by several threads, one lock section at a time.              *)
(***************************************************************************)
\* A call that was not made yet, and the calls of a state in which none was made.
\* pc is where the call is ("idle": not made, "done": returned); device and slot
\* are its local variables, command_buffers the set ResetCommandPool copied and
\* remaining those of the set it still has to reset.
IdleCall ==
  [pc |-> "idle", device |-> nullopt, slot |-> nullopt,
   command_buffers |-> {}, remaining |-> {}]

IdleCalls ==
  [begin |-> [cb \in AllCommandBuffers |-> IdleCall],
   end   |-> [cb \in AllCommandBuffers |-> IdleCall],
   reset |-> [pool \in CommandPools |-> IdleCall]]

InFlight(call) == call.pc \notin {"idle", "done"}

\* MarkCommandBufferEnd holds the reader lock of mutex_ from its first lock
\* section to its return: no writer section runs meanwhile.
HoldsReaderLock(cb) == calls.end[cb].pc \in {"reserve", "write_slot"}
WriterLockFree == \A cb \in AllCommandBuffers : ~HoldsReaderLock(cb)

\* A thread is operating on the command buffer: Vulkan's external synchronization
\* keeps every other thread from using it.
Busy(cb) ==
  \/ InFlight(calls.begin[cb])
  \/ InFlight(calls.end[cb])
  \/ \E pool \in CommandPools :
       InFlight(calls.reset[pool]) /\ cb \in calls.reset[pool].command_buffers

\* MarkCommandBufferBegin, first lock section (writer lock): the state is created.
\* IsCapturing() is read right after it.
BeginCreateState(cb) ==
  /\ ~fatal
  /\ calls.begin[cb].pc = "idle"
  /\ ~Busy(cb)
  /\ WriterLockFree
  /\ IF command_buffer_to_state[cb] # nullopt THEN Abort /\ UNCHANGED calls
     ELSE /\ command_buffer_to_state' =
               [command_buffer_to_state EXCEPT ![cb] = Some(EmptyCommandBufferState)]
          /\ calls' = [calls EXCEPT !.begin[cb].pc =
                         IF is_capturing THEN "read_device" ELSE "done"]
          /\ UNCHANGED <<pool_to_command_buffers, command_buffer_to_device,
                         queue_to_submissions, queue_to_markers, device_to_query_slots,
                         device_to_potential_next_free_index, is_capturing,
                         gpu_queries, written, fatal, in_submit, num_submit_calls,
                         num_recordings>>
  /\ EndedAfter({})
  /\ UNCHANGED mergerVars

\* MarkCommandBufferBegin, second lock section (reader lock): the device is read.
BeginReadDevice(cb) ==
  /\ ~fatal
  /\ calls.begin[cb].pc = "read_device"
  /\ IF command_buffer_to_device[cb] = nullopt THEN Abort /\ UNCHANGED calls
     ELSE /\ calls' = [calls EXCEPT !.begin[cb].pc = "reserve",
                                    !.begin[cb].device = command_buffer_to_device[cb]]
          /\ UNCHANGED hookVars
  /\ EndedAfter({})
  /\ UNCHANGED mergerVars

\* NextReadyQuerySlot called outside the manager's lock, under the pool's own
\* mutex, by the call in progress: the slot goes to a local variable.
ReserveForCall(call, with_slot) ==
  LET r == NextReadyQuerySlot(device_to_query_slots,
                              device_to_potential_next_free_index, Value(call.device))
  IN IF ~r.found THEN Abort /\ UNCHANGED calls
     ELSE /\ device_to_query_slots' = r.slots
          /\ device_to_potential_next_free_index' = r.cursor
          /\ calls' = with_slot[r.index]
          /\ UNCHANGED <<pool_to_command_buffers, command_buffer_to_device,
                         command_buffer_to_state, queue_to_submissions,
                         queue_to_markers, is_capturing, gpu_queries, written, fatal,
                         in_submit, num_submit_calls, num_recordings>>

\* MarkCommandBufferBegin between its second and third lock section.
BeginReserve(cb) ==
  /\ ~fatal
  /\ calls.begin[cb].pc = "reserve"
  /\ ReserveForCall(calls.begin[cb],
                    [s \in Slots |-> [calls EXCEPT !.begin[cb].pc = "write_slot",
                                                   !.begin[cb].slot = Some(s)]])
  /\ EndedAfter({})
  /\ UNCHANGED mergerVars

\* MarkCommandBufferBegin, third lock section (writer lock): the begin slot is
\* written to the state (at() throws when the state is gone).
BeginWriteSlot(cb) ==
  /\ ~fatal
  /\ calls.begin[cb].pc = "write_slot"
  /\ WriterLockFree
  /\ IF command_buffer_to_state[cb] = nullopt THEN Abort /\ UNCHANGED calls
     ELSE /\ command_buffer_to_state' =
               [command_buffer_to_state EXCEPT
                  ![cb] = Some([Value(@) EXCEPT !.command_buffer_begin_slot_index =
                                                  calls.begin[cb].slot])]
          /\ calls' = [calls EXCEPT !.begin[cb].pc = "done"]
          /\ UNCHANGED <<pool_to_command_buffers, command_buffer_to_device,
                         queue_to_submissions, queue_to_markers, device_to_query_slots,
                         device_to_potential_next_free_index, is_capturing,
                         gpu_queries, written, fatal, in_submit, num_submit_calls,
                         num_recordings>>
  /\ EndedAfter({})
  /\ UNCHANGED mergerVars

\* MarkCommandBufferEnd up to the device lookup: IsCapturing() is read, the reader
\* lock is taken and kept, the state and the device are read.
EndLockAndRead(cb) ==
  /\ ~fatal
  /\ calls.end[cb].pc = "idle"
  /\ ~Busy(cb)
  /\ IF ~is_capturing
     THEN calls' = [calls EXCEPT !.end[cb].pc = "done"] /\ UNCHANGED hookVars
     ELSE IF command_buffer_to_state[cb] = nullopt THEN Abort /\ UNCHANGED calls
     ELSE IF Value(command_buffer_to_state[cb]).command_buffer_begin_slot_index = nullopt
     THEN calls' = [calls EXCEPT !.end[cb].pc = "done"] /\ UNCHANGED hookVars
     ELSE IF command_buffer_to_device[cb] = nullopt THEN Abort /\ UNCHANGED calls
     ELSE /\ calls' = [calls EXCEPT !.end[cb].pc = "reserve",
                                    !.end[cb].device = command_buffer_to_device[cb]]
          /\ UNCHANGED hookVars
  /\ EndedAfter(IF calls'.end[cb].pc = "done" THEN {cb} ELSE {})
  /\ UNCHANGED mergerVars

\* MarkCommandBufferEnd reserves its slot, the reader lock held.
EndReserve(cb) ==
  /\ ~fatal
  /\ calls.end[cb].pc = "reserve"
  /\ ReserveForCall(calls.end[cb],
                    [s \in Slots |-> [calls EXCEPT !.end[cb].pc = "write_slot",
                                                   !.end[cb].slot = Some(s)]])
  /\ EndedAfter({})
  /\ UNCHANGED mergerVars

\* MarkCommandBufferEnd writes the end slot through the reference it took, the
\* reader lock held, and returns.
EndWriteSlot(cb) ==
  /\ ~fatal
  /\ calls.end[cb].pc = "write_slot"
  /\ command_buffer_to_state' =
       [command_buffer_to_state EXCEPT
          ![cb] = Some([Value(@) EXCEPT !.command_buffer_end_slot_index =
                                          calls.end[cb].slot])]
  /\ calls' = [calls EXCEPT !.end[cb].pc = "done"]
  /\ UNCHANGED <<pool_to_command_buffers, command_buffer_to_device,
                 queue_to_submissions, queue_to_markers, device_to_query_slots,
                 device_to_potential_next_free_index, is_capturing,
                 gpu_queries, written, fatal, in_submit, num_submit_calls,
                 num_recordings>>
  /\ EndedAfter({cb})
  /\ UNCHANGED mergerVars

\* ResetCommandPool, its lock section (reader lock): the pool's set of command
\* buffers is copied.
ResetPoolCopy(pool) ==
  /\ ~fatal
  /\ calls.reset[pool].pc = "idle"
  /\ pool_to_command_buffers[pool] # nullopt
       => \A cb \in Value(pool_to_command_buffers[pool]) : ~Busy(cb)
  /\ calls' =
       IF \/ pool_to_command_buffers[pool] = nullopt
          \/ pool_to_command_buffers[pool] = Some({})
       THEN [calls EXCEPT !.reset[pool].pc = "done"]
       ELSE [calls EXCEPT
               !.reset[pool].pc = "reset",
               !.reset[pool].command_buffers = Value(pool_to_command_buffers[pool]),
               !.reset[pool].remaining = Value(pool_to_command_buffers[pool])]
  /\ UNCHANGED hookVars
  /\ EndedAfter({})
  /\ UNCHANGED mergerVars

\* ResetCommandPool, one turn of its loop: ResetCommandBuffer (writer lock) of a
\* command buffer of the copy, in the order of the hash set.
ResetPoolNext(pool, cb) ==
  /\ ~fatal
  /\ calls.reset[pool].pc = "reset"
  /\ cb \in calls.reset[pool].remaining
  /\ WriterLockFree
  /\ SetResetState(ResetCommandBufferState(ResetState, cb))
  /\ calls' = [calls EXCEPT
                 !.reset[pool].remaining = @ \ {cb},
                 !.reset[pool].pc = IF calls.reset[pool].remaining = {cb}
                                    THEN "done" ELSE "reset"]
  /\ EndedAfter({})
  /\ UNCHANGED mergerVars

\* The command buffer lists a VkSubmitInfo can carry, and the submits arrays of a
\* vkQueueSubmit call: no command buffer is submitted twice in one call.
CommandBufferLists ==
  {<<>>} \cup {<<c>> : c \in CommandBuffers}
         \cup {<<p[1], p[2]>> :
                 p \in {x \in CommandBuffers \X CommandBuffers : x[1] # x[2]}}

SubmitArrays ==
  {submits \in UNION {[1..n -> CommandBufferLists] : n \in 0..MaxSubmitInfos} :
     \A i, j \in 1..Len(Flatten(submits)) :
        i # j => Flatten(submits)[i] # Flatten(submits)[j]}

InitTracker ==
  /\ pool_to_command_buffers = [p \in CommandPools |-> nullopt]
  /\ command_buffer_to_device = [cb \in AllCommandBuffers |-> nullopt]
  /\ command_buffer_to_state = [cb \in AllCommandBuffers |-> nullopt]
  /\ queue_to_submissions = [q \in Queues |-> nullopt]
  /\ queue_to_markers = [q \in Queues |-> <<>>]
  /\ device_to_query_slots = [d \in Devices |-> [s \in Slots |-> kReadyForQueryIssue]]
  /\ device_to_potential_next_free_index = [d \in Devices |-> 0]
  /\ is_capturing = TRUE
  /\ gpu_queries = [d \in Devices |-> [s \in Slots |-> QueryReset]]
  /\ written = <<>>
  /\ fatal = FALSE
  /\ in_submit = [q \in Queues |-> nullopt]
  /\ num_submit_calls = 0
  /\ num_recordings = 0
  /\ ended = {}
  /\ calls = IdleCalls

InitMerger ==
  /\ fd_event_queues = [fd \in Fds |-> <<>>]
  /\ event_queues_queue = <<>>
  /\ last_processed_timestamp = 0
  /\ discarded_out_of_order_counter = 0
  /\ visited = <<>>
  /\ now = kProcessingDelayMs
  /\ pushed = <<>>
  /\ popped = <<>>
  /\ sourcesMonotonic = TRUE
  /\ skewBounded = TRUE
  /\ stream = "open"

Init == InitMerger /\ InitTracker

\* The processor fed by its sources and driven by its polling thread.
NextProcessor ==
  \/ \E fd \in Fds : \E ts \in Timestamps : AddEvent(fd, ts)
  \/ ProcessAllEvents
  \/ ProcessOldEvents
  \/ Tick

SpecProcessor == Init /\ [][NextProcessor]_vars

\* The queue used on its own: pushes and pops in any interleaving.
NextQueue ==
  \/ \E fd \in Fds : \E ts \in Timestamps : AddEvent(fd, ts)
  \/ PopEventStep

SpecQueue == Init /\ [][NextQueue]_vars

\* The Vulkan layer under continuous capture, with one logical device and one
\* queue: driver callbacks from application threads, and the GPU.
Next ==
  \/ \E cbs \in SUBSET CommandBuffers : TrackCommandBuffers("d1", "p1", cbs)
  \/ \E cb \in CommandBuffers : MarkCommandBufferBegin(cb)
  \/ \E cb \in CommandBuffers : MarkCommandBufferEnd(cb)
  \/ \E cb \in CommandBuffers : MarkerRoom(cb, MaxMarkers) /\ MarkDebugMarkerBegin(cb, "a")
  \/ \E cb \in CommandBuffers : MarkerRoom(cb, MaxMarkers) /\ MarkDebugMarkerEnd(cb)
  \/ \E submits \in SubmitArrays : DoPreSubmitQueue("q1", submits)
  \/ \E ub \in {"crash", "garbage"} : DoPostSubmitQueue("q1", ub)
  \/ \E order \in QueueOrders : CompleteSubmits("d1", order)
  \/ \E cb \in CommandBuffers : ResetCommandBuffer(cb)
  \/ ResetCommandPool("p1")
  \/ \E call \in 1..MaxSubmitCalls : GpuExecute(call)

Spec == Init /\ [][Next]_vars

\* The recording and submission hooks while the capture starts and stops at any
\* time: one command buffer is recorded and submitted again and again, and
\* nothing completes or resets.
NextCapture ==
  \/ \E cbs \in SUBSET CommandBuffers : TrackCommandBuffers("d1", "p1", cbs)
  \/ MarkCommandBufferBegin("cb1")
  \/ MarkCommandBufferEnd("cb1")
  \/ MarkerRoom("cb1", MaxMarkers) /\ MarkDebugMarkerBegin("cb1", "a")
  \/ MarkerRoom("cb1", MaxMarkers) /\ MarkDebugMarkerEnd("cb1")
  \/ \E submits \in SubmitArrays : DoPreSubmitQueue("q1", submits)
  \/ \E ub \in {"crash", "garbage"} : DoPostSubmitQueue("q1", ub)
  \/ ToggleCapture

SpecCapture == Init /\ [][NextCapture]_vars

\* The markers recorded into the command buffer whose markers nest, and the
\* recordings and vkQueueSubmit calls made with it.
MaxNestedMarkers == 4
MaxNestedRecordings == 1
MaxNestedSubmitCalls == 1

\* One command buffer with nested markers of either text, recorded and submitted
\* while the capture starts and stops at any time.
NextNested ==
  \/ TrackCommandBuffers("d1", "p1", {"cb1"})
  \/ num_recordings < MaxNestedRecordings /\ MarkCommandBufferBegin("cb1")
  \/ MarkCommandBufferEnd("cb1")
  \/ \E text \in Texts :
       MarkerRoom("cb1", MaxNestedMarkers) /\ MarkDebugMarkerBegin("cb1", text)
  \/ MarkerRoom("cb1", MaxNestedMarkers) /\ MarkDebugMarkerEnd("cb1")
  \/ num_submit_calls < MaxNestedSubmitCalls /\ DoPreSubmitQueue("q1", <<<<"cb1">>>>)
  \/ \E ub \in {"crash", "garbage"} : DoPostSubmitQueue("q1", ub)
  \/ ToggleCapture

SpecNested == Init /\ [][NextNested]_vars

\* The device each queue was created on, and the device and pool of each command
\* buffer, when the application uses two devices.
QueueDevice == [q \in Queues |-> IF q = "q1" THEN "d1" ELSE "d2"]
CommandBufferDevice == [cb \in CommandBuffers |-> IF cb = "cb1" THEN "d1" ELSE "d2"]
CommandBufferPool == [cb \in CommandBuffers |-> IF cb = "cb1" THEN "p1" ELSE "p2"]
CommandBufferQueue == [cb \in CommandBuffers |-> IF cb = "cb1" THEN "q1" ELSE "q2"]

\* The layer under continuous capture with two logical devices, each with its
\* command pool, its command buffer and its queue: a command buffer is submitted
\* to the queue of its device, and each device's submissions are completed by a
\* call of CompleteSubmits for that device.
NextDevices ==
  \/ \E cb \in CommandBuffers :
       TrackCommandBuffers(CommandBufferDevice[cb], CommandBufferPool[cb], {cb})
  \/ \E cb \in CommandBuffers : MarkCommandBufferBegin(cb)
  \/ \E cb \in CommandBuffers : MarkCommandBufferEnd(cb)
  \/ \E cb \in CommandBuffers : DoPreSubmitQueue(CommandBufferQueue[cb], <<<<cb>>>>)
  \/ \E q \in Queues : \E ub \in {"crash", "garbage"} : DoPostSubmitQueue(q, ub)
  \/ \E d \in Devices : \E order \in QueueOrders : CompleteSubmits(d, order)
  \/ \E call \in 1..MaxSubmitCalls : GpuExecute(call)

SpecDevices == Init /\ [][NextDevices]_vars

\* The command buffers the application allocates from each pool.
PoolMembers == [pool \in CommandPools |-> IF pool = "p1" THEN CommandBuffers
                                                        ELSE OtherCommandBuffers]

\* The tracker's maps, slot states and cursor before any call.
InitialTracker ==
  [pools   |-> [pool \in CommandPools |-> nullopt],
   devices |-> [cb \in AllCommandBuffers |-> nullopt],
   states  |-> [cb \in AllCommandBuffers |-> nullopt],
   slots   |-> [d \in Devices |-> [s \in Slots |-> kReadyForQueryIssue]],
   cursor  |-> [d \in Devices |-> 0],
   fatal   |-> FALSE]

\* TrackCommandBuffers(d1, pool, the pool's command buffers) run as a whole.
ApplyTrack(st, pool) ==
  [st EXCEPT
     !.pools[pool] = Some((IF @ = nullopt THEN {} ELSE Value(@)) \cup PoolMembers[pool]),
     !.devices = [cb \in AllCommandBuffers |->
                    IF cb \in PoolMembers[pool] THEN Some("d1") ELSE @[cb]]]

\* MarkCommandBufferBegin(cb) run as a whole.
ApplyMarkBegin(st, cb) ==
  IF st.states[cb] # nullopt THEN [st EXCEPT !.fatal = TRUE]
  ELSE IF ~is_capturing
  THEN [st EXCEPT !.states[cb] = Some(EmptyCommandBufferState)]
  ELSE IF st.devices[cb] = nullopt THEN [st EXCEPT !.fatal = TRUE]
  ELSE LET r == NextReadyQuerySlot(st.slots, st.cursor, Value(st.devices[cb]))
       IN IF ~r.found THEN [st EXCEPT !.fatal = TRUE]
          ELSE [st EXCEPT
                  !.slots = r.slots,
                  !.cursor = r.cursor,
                  !.states[cb] =
                     Some([EmptyCommandBufferState EXCEPT
                             !.command_buffer_begin_slot_index = Some(r.index)])]

\* MarkCommandBufferEnd(cb) run as a whole.
ApplyMarkEnd(st, cb) ==
  IF ~is_capturing THEN st
  ELSE IF st.states[cb] = nullopt THEN [st EXCEPT !.fatal = TRUE]
  ELSE IF Value(st.states[cb]).command_buffer_begin_slot_index = nullopt THEN st
  ELSE IF st.devices[cb] = nullopt THEN [st EXCEPT !.fatal = TRUE]
  ELSE LET r == NextReadyQuerySlot(st.slots, st.cursor, Value(st.devices[cb]))
       IN IF ~r.found THEN [st EXCEPT !.fatal = TRUE]
          ELSE [st EXCEPT
                  !.slots = r.slots,
                  !.cursor = r.cursor,
                  !.states[cb] =
                     Some([Value(@) EXCEPT
                             !.command_buffer_end_slot_index = Some(r.index)])]

\* ResetCommandBuffer(cb) run as a whole.
ApplyResetCommandBuffer(st, cb) ==
  IF st.fatal \/ st.states[cb] = nullopt THEN st
  ELSE IF st.devices[cb] = nullopt THEN [st EXCEPT !.fatal = TRUE]
  ELSE [st EXCEPT
          !.slots = RollbackPendingQuerySlots(@, Value(st.devices[cb]),
                                              SlotsToRollback(Value(st.states[cb]))),
          !.states[cb] = nullopt]

\* ResetCommandPool(pool) run as a whole.
RECURSIVE ApplyResetAll(_, _)
ApplyResetAll(st, cbs) ==
  IF cbs = {} THEN st
  ELSE LET cb == CHOOSE c \in cbs : TRUE
       IN ApplyResetAll(ApplyResetCommandBuffer(st, cb), cbs \ {cb})

ApplyResetPool(st, pool) ==
  IF st.pools[pool] = nullopt THEN st ELSE ApplyResetAll(st, Value(st.pools[pool]))

\* One call run as a whole, from the first lock it takes to its return.
Apply(call, st) ==
  CASE call.op = "track"      -> ApplyTrack(st, call.arg)
    [] call.op = "mark_begin" -> ApplyMarkBegin(st, call.arg)
    [] call.op = "mark_end"   -> ApplyMarkEnd(st, call.arg)
    [] call.op = "reset_pool" -> ApplyResetPool(st, call.arg)

\* The calls the threads have made so far.
CallsMade ==
  {[op |-> "track", arg |-> pool] :
     pool \in {p \in CommandPools : pool_to_command_buffers[p] # nullopt}}
  \cup {[op |-> "mark_begin", arg |-> cb] :
          cb \in {c \in AllCommandBuffers : calls.begin[c].pc # "idle"}}
  \cup {[op |-> "mark_end", arg |-> cb] :
          cb \in {c \in AllCommandBuffers : calls.end[c].pc # "idle"}}
  \cup {[op |-> "reset_pool", arg |-> pool] :
          pool \in {p \in CommandPools : calls.reset[p].pc # "idle"}}

\* What a caller can observe of the tracker: its maps and the slot states.
Observed(st) ==
  [pools |-> st.pools, devices |-> st.devices, states |-> st.states, slots |-> st.slots]

\* The observations the sequential orders of the calls end with, from st on; an
\* order that aborts the process ends with none.
RECURSIVE SerialOutcomes(_, _)
SerialOutcomes(st, todo) ==
  IF st.fatal THEN {}
  ELSE IF todo = {} THEN {Observed(st)}
  ELSE UNION {SerialOutcomes(Apply(call, st), todo \ {call}) : call \in todo}

\* No call is in progress.
Quiescent ==
  /\ \A cb \in AllCommandBuffers : ~InFlight(calls.begin[cb]) /\ ~InFlight(calls.end[cb])
  /\ \A pool \in CommandPools : ~InFlight(calls.reset[pool])

\* Application threads that track the command buffers of two pools, record them
\* and reset the first pool, each call advancing one lock section at a time; a
\* command buffer is used by one thread at a time.
NextThreads ==
  \/ \E pool \in CommandPools :
       /\ pool_to_command_buffers[pool] = nullopt
       /\ WriterLockFree
       /\ \A cb \in PoolMembers[pool] : ~Busy(cb)
       /\ TrackCommandBuffers("d1", pool, PoolMembers[pool])
  \/ \E cb \in AllCommandBuffers : BeginCreateState(cb)
  \/ \E cb \in AllCommandBuffers : BeginReadDevice(cb)
  \/ \E cb \in AllCommandBuffers : BeginReserve(cb)
  \/ \E cb \in AllCommandBuffers : BeginWriteSlot(cb)
  \/ \E cb \in CommandBuffers : EndLockAndRead(cb)
  \/ \E cb \in CommandBuffers : EndReserve(cb)
  \/ \E cb \in CommandBuffers : EndWriteSlot(cb)
  \/ ResetPoolCopy("p1")
  \/ \E cb \in CommandBuffers : ResetPoolNext("p1", cb)

SpecThreads == Init /\ [][NextThreads]_vars

(***************************************************************************)
(* Properties of the merger and of the delayed processor.                  *)
(***************************************************************************)
\* The events buffered in the merger.
Buffered == UNION {Range(fd_event_queues[fd]) : fd \in Fds}

\* The events a step takes from the merger.
Taken == Buffered \ Buffered'

NoDuplicates(s) == \A i, j \in 1..Len(s) : i # j => s[i] # s[j]

\* The event stream C1 is about: monotonic sources, bounded lateness, and
\* ProcessAllEvents used as the final drain, with no event pushed after it.
InputOk == sourcesMonotonic /\ skewBounded /\ stream # "reopened"

\* The newest point in time whose events ProcessOldEvents releases.
MaxTimestamp == now - kProcessingDelayMs

C1_Inv ==
  InputOk =>
    /\ IsSortedByTs(visited)
    /\ NoDuplicates(visited)
    /\ discarded_out_of_order_counter = 0
    /\ Range(visited) \cup Buffered = Range(pushed)
    /\ Range(visited) \cap Buffered = {}

C1_Step ==
  InputOk =>
    /\ ProcessAllEvents => Range(visited') = Range(pushed)
    /\ ProcessOldEvents =>
         \A e \in Range(pushed) : e.ts <= MaxTimestamp => e \in Range(visited')

\* C1: when every source pushes in non-decreasing timestamp order, no event is
\* pushed later than kProcessingDelayMs after its timestamp and none after the
\* drain by ProcessAllEvents, the events handed to
\* the visitors are in non-decreasing timestamp order, none is discarded or
\* handed over twice, every pushed event is either buffered or was handed over,
\* ProcessAllEvents hands over every pushed event and ProcessOldEvents every
\* pushed event that is at least kProcessingDelayMs old (all of them, once the
\* clock has reached the last timestamp plus kProcessingDelayMs).
C1_OrderedExactlyOnce == []C1_Inv /\ [][C1_Step]_vars

\* Three events of several sources were handed over in timestamp order, which
\* is not the order they were pushed in.
C1_Witness ==
  /\ InputOk
  /\ Len(visited) = 3
  /\ visited[1].ts < visited[2].ts /\ visited[2].ts < visited[3].ts
  /\ \E i, j \in 1..3 : i < j /\ visited[i].id > visited[j].id
  /\ \E i, j \in 1..3 : visited[i].fd # visited[j].fd
  /\ Buffered = {}

C7_Inv ==
  /\ IsSortedByTs(visited)
  /\ last_processed_timestamp =
       (IF visited = <<>> THEN 0 ELSE visited[Len(visited)].ts)
  /\ Len(visited) + discarded_out_of_order_counter + Cardinality(Buffered)
       = Len(pushed)

C7_Step ==
  /\ last_processed_timestamp' >= last_processed_timestamp
  /\ discarded_out_of_order_counter' >= discarded_out_of_order_counter
  /\ (ProcessOldEvents \/ ProcessAllEvents) =>
       \* what is taken is dispatched or counted, one count per discarded event
       /\ Cardinality(Taken) =
            (Len(visited') - Len(visited))
            + (discarded_out_of_order_counter' - discarded_out_of_order_counter)
       /\ \A e \in Taken :
            \* discarded only if older than what was processed before it
            /\ e \notin Range(visited') => e.ts < last_processed_timestamp'
            \* older than the last processed timestamp: discarded
            /\ e.ts < last_processed_timestamp => e \notin Range(visited')
            \* not older than anything processed: dispatched
            /\ e.ts >= last_processed_timestamp' => e \in Range(visited')

\* C7: last_processed_timestamp never decreases and is the timestamp of the last
\* event dispatched; an event taken from the merger is discarded, and counted
\* once, when its timestamp is strictly less than last_processed_timestamp, and
\* dispatched when it is not less; the dispatched sequence is non-decreasing in
\* timestamp for every input, and dispatched + discarded = taken.
C7_OutOfOrderGuard == []C7_Inv /\ [][C7_Step]_vars

\* A late event was discarded and counted once; an event as old as the last one
\* processed was dispatched.
C7_Witness ==
  /\ discarded_out_of_order_counter = 1
  /\ Len(visited) = 2
  /\ visited[1].ts = visited[2].ts
  /\ \E e \in Range(pushed) :
       e \notin Range(visited) /\ e \notin Buffered /\ e.ts < visited[1].ts

C8_Step ==
  /\ ProcessOldEvents =>
       /\ \A e \in Taken : e.ts <= MaxTimestamp
       /\ \A e \in Buffered : e.ts > MaxTimestamp => e \in Buffered'
       /\ HasEvent(event_queues_queue') =>
            TopEvent(fd_event_queues', event_queues_queue').ts > MaxTimestamp
       /\ sourcesMonotonic => \A e \in Buffered' : e.ts > MaxTimestamp
  /\ ProcessAllEvents => Buffered' = {} /\ ~HasEvent(event_queues_queue')

\* C8: ProcessOldEvents takes (dispatches or discards) only events whose timestamp
\* is at most now - kProcessingDelayMs; every newer event stays buffered, and the
\* loop stops only at an empty merger or at a top event that is newer, so a
\* later call releases what has become old enough; ProcessAllEvents leaves no
\* event buffered, whatever its age.
C8_DelayGating == [][C8_Step]_vars

\* ProcessOldEvents has released an event and kept back one pushed before it,
\* which is not old enough yet.
C8_Witness ==
  /\ visited # <<>>
  /\ \E e \in Buffered, v \in Range(visited) :
       /\ e.id < v.id
       /\ e.ts > MaxTimestamp
       /\ v.ts <= MaxTimestamp
  /\ popped = <<>>

\* The fronts of the non-empty FIFOs.
Fronts == {Head(fd_event_queues[fd]) : fd \in {f \in Fds : fd_event_queues[f] # <<>>}}

\* C9: the heap holds exactly the sources with a non-empty FIFO; HasEvent is true
\* iff some FIFO is non-empty; while every source has pushed in non-decreasing
\* timestamp order, TopEvent is an event of minimum timestamp among the fronts
\* of the non-empty FIFOs (and so among all buffered events), every pushed
\* event is buffered or was popped, once, and an event is popped before every
\* event that was already pushed at that time and is popped later only if its
\* timestamp is not greater: N pushes followed by N pops return the pushed
\* events in non-decreasing timestamp order.
C9_MergerOrder ==
  /\ Range(event_queues_queue) = {fd \in Fds : fd_event_queues[fd] # <<>>}
  /\ NoDuplicates(event_queues_queue)
  /\ HasEvent(event_queues_queue) <=> (\E fd \in Fds : fd_event_queues[fd] # <<>>)
  /\ NoDuplicates(popped)
  /\ {popped[i].event : i \in 1..Len(popped)} \cup Buffered = Range(pushed)
  /\ {popped[i].event : i \in 1..Len(popped)} \cap Buffered = {}
  /\ sourcesMonotonic =>
       /\ HasEvent(event_queues_queue) =>
            /\ TopEvent(fd_event_queues, event_queues_queue) \in Fronts
            /\ \A e \in Buffered :
                 TopEvent(fd_event_queues, event_queues_queue).ts <= e.ts
       /\ \A i, j \in 1..Len(popped) :
            (i < j /\ popped[j].event.id <= popped[i].pushed_before)
              => popped[i].event.ts <= popped[j].event.ts

\* Three events of three sources were pushed, not in timestamp order, and then
\* popped.
C9_Witness ==
  /\ sourcesMonotonic
  /\ Len(popped) = 3
  /\ \A i \in 1..3 : popped[i].pushed_before = 3
  /\ \A i, j \in 1..3 : i # j => popped[i].event.fd # popped[j].event.fd
  /\ popped[1].event.id = 3
  /\ popped[1].event.ts < popped[2].event.ts
  /\ popped[2].event.ts < popped[3].event.ts


(***************************************************************************)
(* Properties of the command buffer manager and of the query slot pool.    *)
(***************************************************************************)
\* The submissions pending on a queue, oldest first.
PendingOf(q) ==
  IF queue_to_submissions[q] = nullopt THEN <<>> ELSE Value(queue_to_submissions[q])

\* The vkQueueSubmit calls whose submissions are pending on a queue.
PendingCalls(q) ==
  {PendingOf(q)[i].meta_information.call : i \in 1..Len(PendingOf(q))}

HasRecordedCommandBuffers(submission) == Flatten(submission.submit_infos) # <<>>

\* The slots a submission holds: those of its command buffers and of its
\* completed markers, whose timestamps its record reports.
RecordSlots(submission) ==
  LET cbs == Flatten(submission.submit_infos)
      markers == submission.completed_markers
  IN {cbs[i].command_buffer_begin_slot_index : i \in 1..Len(cbs)}
     \cup {cbs[i].command_buffer_end_slot_index : i \in 1..Len(cbs)}
     \cup UNION {{m.slot_index : m \in markers[i].end_info} : i \in 1..Len(markers)}
     \cup UNION {{m.slot_index : m \in markers[i].begin_info} : i \in 1..Len(markers)}

IsReady(device, slot) == device_to_query_slots[device][slot] = kReadyForQueryIssue
IsPending(device, slot) == device_to_query_slots[device][slot] = kQueryPendingOnGPU

\* The slots a step releases or rolls back, and those it reserves.
Released(device) == {s \in Slots : IsPending(device, s) /\ IsReady(device, s)'}
Reserved(device) == {s \in Slots : IsReady(device, s) /\ IsPending(device, s)'}

\* A step of CompleteSubmits that returns.
CompleteSubmitsReturns(device) ==
  /\ \E order \in QueueOrders : CompleteSubmits(device, order)
  /\ ~fatal'

C2_Step ==
  \A q \in Queues :
    \A i, j \in 1..Len(PendingOf(q)) :
      (/\ i < j
       /\ HasRecordedCommandBuffers(PendingOf(q)[i])
       /\ PendingOf(q)[i].meta_information.call \in PendingCalls(q)')
      => PendingOf(q)[j].meta_information.call \in PendingCalls(q)'

\* C2: no step removes a submission from the pending submissions of a queue (to
\* emit it) while an earlier submission of that queue that has recorded command
\* buffers stays pending: per queue, submissions complete in submission order,
\* and a submission that is not ready stops the draining of its queue.
C2_FifoCompletion == [][C2_Step]_vars

C3_Step ==
  \A q \in Queues :
    \A i \in 1..Len(PendingOf(q)) :
      (/\ ~fatal'
       /\ PendingOf(q)[i].meta_information.post # 0
       /\ PendingOf(q)[i].meta_information.call \notin PendingCalls(q)')
      => \A s \in RecordSlots(PendingOf(q)[i]) : IsReady("d1", s)'

\* C3: every slot reserved in a lifecycle that ended in a submission (pre_submit
\* recorded it, post_submit stamped it) is released when the submission stops
\* being pending. The manager refers to these slots
\* through the pending submission only: a slot that is still pending on the GPU
\* when its submission is removed is never released, whatever the GPU and
\* CompleteSubmits do afterwards.
C3_SubmittedSlotsReleased == [][C3_Step]_vars

\* The submissions a step of CompleteSubmits emits.
Emitted(q) ==
  {i \in 1..Len(PendingOf(q)) :
     /\ PendingOf(q)[i].meta_information.call \notin PendingCalls(q)'
     /\ PendingOf(q)[i].meta_information.call \in
          {written'[k].call : k \in (Len(written) + 1)..Len(written')}}

C4_Step ==
  CompleteSubmitsReturns("d1") =>
    LET emitted_slots ==
          UNION {UNION {RecordSlots(PendingOf(q)[i]) : i \in Emitted(q)} : q \in Queues}
    IN /\ \A s \in emitted_slots : IsPending("d1", s) /\ IsReady("d1", s)'
       /\ Released("d1") = emitted_slots
       /\ Reserved("d1") = {}
       /\ device_to_query_slots'["d2"] = device_to_query_slots["d2"]

\* C4: a step of CompleteSubmits that returns releases exactly the slots of the
\* records it emits: the begin and end slot of every command buffer of an
\* emitted submission, the end slot of every completed marker and its begin slot
\* when present. All of them were pending and are ready after the step, and no
\* other slot changes its state.
C4_EmittedSlotsReleased == [][C4_Step]_vars

\* A submission with a completed marker that has its begin slot was emitted: the
\* four slots of its record are free again.
C4_Witness ==
  /\ ~fatal
  /\ Len(written) = 2
  /\ Cardinality(written[2].slots) = 4
  /\ \A s \in Slots : IsReady("d1", s)
  /\ PendingOf("q1") = <<>>
  /\ queue_to_markers["q1"] = <<>>


\* A reference to a slot held by the manager.
Ref(kind, owner, index, part, slot) ==
  [kind |-> kind, owner |-> owner, index |-> index, part |-> part, slot |-> slot]

\* The references to slots held in the command buffer states, in the pending
\* submissions and on the marker stacks.
StateRefs ==
  UNION {
    LET st == command_buffer_to_state[cb] IN
      {Ref("state", cb, 0, "begin", s) :
         s \in UNION {x.command_buffer_begin_slot_index : x \in st}}
      \cup {Ref("state", cb, 0, "end", s) :
              s \in UNION {x.command_buffer_end_slot_index : x \in st}}
      \cup UNION {UNION {{Ref("state", cb, i, "marker", s) : s \in x.markers[i].slot_index}
                           : i \in 1..Len(x.markers)} : x \in st}
    : cb \in CommandBuffers}

SubmissionRefs ==
  UNION {UNION {
    LET submission == PendingOf(q)[i]
        call == submission.meta_information.call
        cbs == Flatten(submission.submit_infos)
        markers == submission.completed_markers
    IN {Ref("submission", q, call, "begin", cbs[j].command_buffer_begin_slot_index)
          : j \in 1..Len(cbs)}
       \cup {Ref("submission", q, call, "end", cbs[j].command_buffer_end_slot_index)
               : j \in 1..Len(cbs)}
       \cup UNION {{Ref("submission", q, call, "marker end", m.slot_index)
                      : m \in markers[j].end_info} : j \in 1..Len(markers)}
       \cup UNION {{Ref("submission", q, call, "marker begin", m.slot_index)
                      : m \in markers[j].begin_info} : j \in 1..Len(markers)}
    : i \in 1..Len(PendingOf(q))} : q \in Queues}

StackRefs ==
  UNION {UNION {{Ref("stack", q, i, "marker begin", m.slot_index)
                   : m \in queue_to_markers[q][i].begin_info}
                : i \in 1..Len(queue_to_markers[q])} : q \in Queues}

SlotRefs == StateRefs \cup SubmissionRefs \cup StackRefs

HeldSlots == {r.slot : r \in SlotRefs}

\* What reserve does for a caller on the device in the current state.
ReserveNow(device) ==
  NextReadyQuerySlot(device_to_query_slots, device_to_potential_next_free_index, device)

C5_Inv ==
  \A d \in Devices :
       LET r == ReserveNow(d) IN
         /\ r.found <=> (\E s \in Slots : IsReady(d, s))
         /\ r.found =>
              /\ r.index \in Slots
              /\ IsReady(d, r.index)
              /\ r.slots = [device_to_query_slots EXCEPT ![d][r.index] = kQueryPendingOnGPU]
         /\ ~r.found => r.slots = device_to_query_slots

\* The slots a step hands to a caller: it records them in a command buffer state.
HandedOut == {r.slot : r \in StateRefs' \ StateRefs}

C5_Step ==
  /\ \A s \in HandedOut : IsReady("d1", s) /\ IsPending("d1", s)'
  /\ Reserved("d1") = HandedOut
  /\ Cardinality(HandedOut) <= 1

\* C5: NextReadyQuerySlot finds a slot exactly when some slot of the device is
\* ready, the slot it returns is ready at the call and pending after it, and no
\* other slot changes; a slot a caller is handed was ready before the step and is
\* pending after it, and a step hands out at most one slot and marks no other
\* pending: a slot, pending once handed out, is not handed out again without a
\* release or rollback in between.
C5_ReserveOnlyFree == []C5_Inv /\ [][C5_Step]_vars

\* The pool is saturated after slots released by an emitted submission were
\* handed out again: reserve finds no slot.
C5_Witness ==
  /\ ~fatal
  /\ \A s \in Slots : IsPending("d1", s)
  /\ ~ReserveNow("d1").found
  /\ Cardinality(HeldSlots) = Cardinality(Slots)
  /\ written # <<>>

\* The device's pool is saturated and the call reaches the reservation of a slot.
ReservesWhenSaturated(cb) ==
  /\ ~fatal
  /\ is_capturing
  /\ command_buffer_to_device[cb] = Some("d1")
  /\ \A s \in Slots : IsPending("d1", s)
  /\ \/ /\ command_buffer_to_state[cb] = nullopt
        /\ MarkCommandBufferBegin(cb)
     \/ /\ command_buffer_to_state[cb] # nullopt
        /\ \A st \in command_buffer_to_state[cb] :
              st.command_buffer_begin_slot_index # nullopt
        /\ MarkCommandBufferEnd(cb)
     \/ /\ command_buffer_to_state[cb] # nullopt
        /\ \E text \in Texts : MarkDebugMarkerBegin(cb, text)
     \/ /\ command_buffer_to_state[cb] # nullopt
        /\ MarkDebugMarkerEnd(cb)

C6_Step ==
  \A cb \in CommandBuffers :
    ReservesWhenSaturated(cb) =>
      /\ ~fatal'
      /\ device_to_query_slots' = device_to_query_slots
      /\ gpu_queries' = gpu_queries

\* C6: a mark_begin, mark_end, marker_begin or marker_end that finds the pool
\* saturated returns normally: no fatal state, no slot reserved, no timestamp
\* write issued.
C6_SaturationSkipsInstrumentation == [][C6_Step]_vars

C10_Step ==
  \A cb \in CommandBuffers :
    (ResetCommandBuffer(cb) /\ ~fatal') =>
      IF command_buffer_to_state[cb] = nullopt THEN UNCHANGED trackerVars
      ELSE LET state == Value(command_buffer_to_state[cb])
               device == Value(command_buffer_to_device[cb])
               slots == state.command_buffer_begin_slot_index
                          \cup state.command_buffer_end_slot_index
           IN /\ \A s \in slots : IsPending(device, s)
              /\ Released(device) = slots
              /\ \A d \in Devices, s \in Slots :
                   (d # device \/ s \notin slots) =>
                     device_to_query_slots'[d][s] = device_to_query_slots[d][s]
              /\ command_buffer_to_state' =
                   [command_buffer_to_state EXCEPT ![cb] = nullopt]
              /\ UNCHANGED <<written, queue_to_submissions, queue_to_markers,
                             gpu_queries, command_buffer_to_device,
                             pool_to_command_buffers>>

\* C10: ResetCommandBuffer of a command buffer that has state rolls back exactly
\* its begin slot and its end slot (those that are set): they were pending and
\* are ready after the call, every other slot keeps its state, the state of the
\* command buffer is erased, and nothing is written or added to a submission;
\* for a command buffer without state the call changes nothing.
C10_ResetRollsBackBeginEnd == [][C10_Step]_vars

\* A command buffer was begun and ended and then reset: both slots are free
\* again, the state is gone, and nothing was submitted or emitted.
C10_Witness ==
  /\ ~fatal
  /\ num_recordings = 1
  /\ device_to_potential_next_free_index["d1"] = 2
  /\ \A s \in Slots : IsReady("d1", s)
  /\ \A cb \in CommandBuffers : command_buffer_to_state[cb] = nullopt
  /\ num_submit_calls = 0
  /\ written = <<>>

(***************************************************************************)
(* Properties of the marker stack, of the hooks' preconditions and of the  *)
(* pool's round trip.                                                      *)
(***************************************************************************)
\* The markers DoPostSubmitQueue processes for the command buffers cbs, in order.
RECURSIVE SubmittedMarkers(_)
SubmittedMarkers(cbs) ==
  IF cbs = <<>> THEN <<>>
  ELSE (IF command_buffer_to_state[Head(cbs)] = nullopt THEN <<>>
        ELSE Value(command_buffer_to_state[Head(cbs)]).markers)
       \o SubmittedMarkers(Tail(cbs))

\* The markers of the vkQueueSubmit call in progress on the queue.
MarkersInSubmit(q) ==
  IF in_submit[q] = nullopt THEN <<>>
  ELSE SubmittedMarkers(Value(in_submit[q]).command_buffers)

\* Every command buffer of the call in progress on the queue has tracker state.
AllRecorded(q) ==
  /\ in_submit[q] # nullopt
  /\ \A cb \in Range(Value(in_submit[q]).command_buffers) :
       command_buffer_to_state[cb] # nullopt

\* The number of END markers of the list that find an open BEGIN marker, on a
\* stack that holds depth markers before the list is processed.
RECURSIVE MatchedEnds(_, _)
MatchedEnds(depth, markers) ==
  IF markers = <<>> THEN 0
  ELSE IF Head(markers).type = kDebugMarkerBegin
  THEN MatchedEnds(depth + 1, Tail(markers))
  ELSE IF depth = 0 THEN MatchedEnds(0, Tail(markers))
  ELSE 1 + MatchedEnds(depth - 1, Tail(markers))

\* The number of END markers of the list, and of those that find the stack empty.
Ends(markers) ==
  Cardinality({i \in 1..Len(markers) : markers[i].type = kDebugMarkerEnd})
UnmatchedEnds(depth, markers) == Ends(markers) - MatchedEnds(depth, markers)

\* The depth of the stack once the list is processed and unmatched ENDs are ignored.
DepthAfter(depth, markers) ==
  depth + (Len(markers) - Ends(markers)) - MatchedEnds(depth, markers)

\* The completed markers of all the pending submissions of the queue.
CompletedCount(q) ==
  LET RECURSIVE Sum(_)
      Sum(subs) == IF subs = <<>> THEN 0
                   ELSE Len(Head(subs).completed_markers) + Sum(Tail(subs))
  IN Sum(PendingOf(q))

\* A step of DoPostSubmitQueue on the queue.
PostSubmitStep(q) == \E ub \in {"crash", "garbage"} : DoPostSubmitQueue(q, ub)

C14_Step ==
  \A q \in Queues :
    (/\ PostSubmitStep(q)
     /\ AllRecorded(q)
     /\ UnmatchedEnds(Len(queue_to_markers[q]), MarkersInSubmit(q)) > 0)
    => /\ ~fatal'
       /\ Len(queue_to_markers'[q]) =
            DepthAfter(Len(queue_to_markers[q]), MarkersInSubmit(q))
       /\ CompletedCount(q)' - CompletedCount(q)
            <= MatchedEnds(Len(queue_to_markers[q]), MarkersInSubmit(q))

\* C14: when post_submit processes an END marker while the queue's marker stack
\* is empty, the marker is ignored: the process does not abort, the stack is as
\* deep afterwards as the matched markers make it, and no completed marker is
\* appended for the unmatched END.
C14_UnmatchedEndIgnored == [][C14_Step]_vars

\* A step of DoPreSubmitQueue on the queue, under capture, for a call that names
\* a command buffer without tracker state.
PreSubmitOfUnrecorded(q) ==
  \E submits \in SubmitArrays :
     /\ DoPreSubmitQueue(q, submits)
     /\ is_capturing
     /\ \E cb \in Range(Flatten(submits)) : command_buffer_to_state[cb] = nullopt

\* A step of DoPostSubmitQueue on the queue for such a call.
PostSubmitOfUnrecorded(q) == PostSubmitStep(q) /\ ~AllRecorded(q)

C15_Step ==
  \A q \in Queues :
    (PreSubmitOfUnrecorded(q) \/ PostSubmitOfUnrecorded(q)) => ~fatal'

\* C15: a command buffer without tracker state that is passed to pre_submit or
\* post_submit is skipped: the call raises no fatal assertion.
C15_UnrecordedSkipped == [][C15_Step]_vars

\* The vkQueueSubmit calls whose timings have been emitted.
WrittenCalls == {written[i].call : i \in 1..Len(written)}

C20_Step ==
  \A q \in Queues :
    \A i \in 1..Len(PendingOf(q)) :
      (/\ ~fatal'
       /\ HasRecordedCommandBuffers(PendingOf(q)[i])
       /\ PendingOf(q)[i].meta_information.call \notin PendingCalls(q)')
      => PendingOf(q)[i].meta_information.call \in WrittenCalls'

\* C20: a pending submission is erased without emission only if none of its
\* submit_infos has a recorded command buffer: a submission that has one, in its
\* last submit_info or in an earlier one, leaves the pending submissions only by
\* being emitted.
C20_ErasedOnlyIfEmpty == [][C20_Step]_vars

\* C17: in every state of the pool, reserving a slot and then releasing it, or
\* rolling it back, leaves every slot of the device in the state it was in before
\* the reservation; and releasing and rolling back a set of slots are the same
\* transition of the slot states.
C17_ReserveRoundTrip ==
  \A d \in Devices :
    /\ LET r == ReserveNow(d) IN
         r.found =>
           /\ r.slots[d][r.index] = kQueryPendingOnGPU
           /\ ResetQuerySlots(r.slots, d, {r.index}) = device_to_query_slots
           /\ RollbackPendingQuerySlots(r.slots, d, {r.index}) = device_to_query_slots
    /\ \A indices \in SUBSET Slots :
         ResetQuerySlots(device_to_query_slots, d, indices)
           = RollbackPendingQuerySlots(device_to_query_slots, d, indices)

\* A pool with pending and ready slots whose search starts on a pending slot.
C17_Witness ==
  /\ ~fatal
  /\ IsPending("d1", device_to_potential_next_free_index["d1"])
  /\ ReserveNow("d1").found
  /\ Cardinality({s \in Slots : IsPending("d1", s)}) = 2

(***************************************************************************)
(* Events of equal timestamp in the merger.                                *)
(***************************************************************************)
\* C19: of two buffered events of equal timestamp, the one popped first is the
\* one pushed first when both come from the same source, and the one of the
\* smaller source id when they come from different sources.
C19_TieOrder ==
  \A i, j \in 1..Len(popped) :
    (/\ i < j
     /\ popped[j].event.id <= popped[i].pushed_before
     /\ popped[i].event.ts = popped[j].event.ts)
    => IF popped[i].event.fd = popped[j].event.fd
       THEN popped[i].event.id < popped[j].event.id
       ELSE popped[i].event.fd < popped[j].event.fd

(***************************************************************************)
(* Markers under a capture that starts and stops.                          *)
(***************************************************************************)
\* C11: the depth of every marker open on a queue's marker stack is the number
\* of BEGIN markers that were open on that stack when post_submit processed its
\* BEGIN, that is, the number of markers below it: whatever was submitted before,
\* and whether or not the capture was on when the marker was recorded (it has a
\* slot) or submitted (it has begin information).
C11_MarkerDepth ==
  \A q \in Queues :
    \A i \in 1..Len(queue_to_markers[q]) : queue_to_markers[q][i].depth = i - 1

\* Two markers are open on the queue, from two submissions: the first one was
\* recorded or submitted while the capture was off, the second one under capture.
C11_Witness ==
  /\ ~fatal
  /\ Len(queue_to_markers["q1"]) = 2
  /\ queue_to_markers["q1"][1].begin_info = nullopt
  /\ queue_to_markers["q1"][2].begin_info # nullopt
  /\ queue_to_markers["q1"][2].depth = 1

\* The number of BEGIN markers of the list.
Begins(markers) == Len(markers) - Ends(markers)

\* The submission pre_submit recorded for the vkQueueSubmit call in progress on
\* the queue is the last pending one: the one post_submit writes to.
OwnSubmissionPending(q) ==
  /\ in_submit[q] # nullopt
  /\ PendingOf(q) # <<>>
  /\ PendingOf(q)[Len(PendingOf(q))].meta_information.call = Value(in_submit[q]).call

C12_Step ==
  \A q \in Queues :
    (/\ PostSubmitStep(q)
     /\ ~fatal'
     /\ is_capturing
     /\ AllRecorded(q)
     /\ OwnSubmissionPending(q))
    => PendingOf(q)'[Len(PendingOf(q))].num_begin_markers = Begins(MarkersInSubmit(q))

\* C12: after post_submit ran under capture for a submission, num_begin_markers
\* of the submission is the number of BEGIN markers post_submit processed for it,
\* whether or not their ENDs arrived and whether or not they carry a slot.
C12_BeginMarkersCounted == [][C12_Step]_vars

(***************************************************************************)
(* Matching of END markers with BEGIN markers.                             *)
(***************************************************************************)
\* The markers a queue has seen that still matter to a call of post_submit: the
\* BEGINs open on its stack, oldest first, then the markers the call processes.
MarkerHistory(q) ==
  [i \in 1..Len(queue_to_markers[q]) |->
     [type |-> kDebugMarkerBegin, text |-> queue_to_markers[q][i].text,
      slot_index |-> nullopt]]
  \o MarkersInSubmit(q)

\* BEGINs minus ENDs among the markers at the positions of the set.
Balance(seq, positions) ==
  Cardinality({i \in positions : seq[i].type = kDebugMarkerBegin})
    - Cardinality({i \in positions : seq[i].type = kDebugMarkerEnd})

\* The BEGIN an END at position k belongs to: the last BEGIN before it with as
\* many BEGINs as ENDs in between.
MatchOf(seq, k) ==
  LET candidates == {j \in 1..(k - 1) : /\ seq[j].type = kDebugMarkerBegin
                                        /\ Balance(seq, (j + 1)..(k - 1)) = 0}
  IN CHOOSE j \in candidates : \A j2 \in candidates : j2 <= j

\* The number of BEGINs open when the marker at position j is processed.
OpenBefore(seq, j) == Balance(seq, 1..(j - 1))

\* The completed markers the ENDs from position k on give, in END order: one for
\* each END that carries a slot.
RECURSIVE CompletedFrom(_, _)
CompletedFrom(seq, k) ==
  IF k > Len(seq) THEN <<>>
  ELSE (IF seq[k].type = kDebugMarkerEnd /\ seq[k].slot_index # nullopt
        THEN <<[text |-> seq[MatchOf(seq, k)].text,
                depth |-> OpenBefore(seq, MatchOf(seq, k))]>>
        ELSE <<>>)
       \o CompletedFrom(seq, k + 1)

\* The BEGINs no END of the history belongs to, oldest first.
RECURSIVE OpenFrom(_, _)
OpenFrom(seq, j) ==
  IF j > Len(seq) THEN <<>>
  ELSE (IF /\ seq[j].type = kDebugMarkerBegin
           /\ ~\E k \in (j + 1)..Len(seq) :
                 seq[k].type = kDebugMarkerEnd /\ MatchOf(seq, k) = j
        THEN <<[text |-> seq[j].text, depth |-> OpenBefore(seq, j)]>>
        ELSE <<>>)
       \o OpenFrom(seq, j + 1)

\* Text and depth of each marker state of a list.
TextAndDepth(states) ==
  [i \in 1..Len(states) |-> [text |-> states[i].text, depth |-> states[i].depth]]

C13_Step ==
  \A q \in Queues :
    (/\ PostSubmitStep(q)
     /\ ~fatal'
     /\ is_capturing
     /\ AllRecorded(q)
     /\ OwnSubmissionPending(q)
     /\ UnmatchedEnds(Len(queue_to_markers[q]), MarkersInSubmit(q)) = 0)
    => /\ TextAndDepth(PendingOf(q)'[Len(PendingOf(q))].completed_markers)
            = CompletedFrom(MarkerHistory(q), Len(queue_to_markers[q]) + 1)
       /\ TextAndDepth(queue_to_markers'[q]) = OpenFrom(MarkerHistory(q), 1)

PreSubmitOfEnded(q) ==
  \E submits \in SubmitArrays :
     /\ DoPreSubmitQueue(q, submits)
     /\ is_capturing
     /\ Range(Flatten(submits)) \subseteq ended

C16_Step == \A q \in Queues : PreSubmitOfEnded(q) => ~fatal'

\* C16: however the capture starts and stops between mark_begin, mark_end and
\* pre_submit, a command buffer whose recording was ended and which has a begin
\* slot has an end slot when it reaches pre_submit: pre_submit under capture
\* raises no fatal assertion for command buffers that were begun and ended.
C16_EndSlotAtPreSubmit == [][C16_Step]_vars


\* C18: whenever no call is in progress and the process has not aborted, the
\* tracker's maps and slot states are those some sequential order of the calls
\* made so far ends with.
C18_Serializable ==
  (Quiescent /\ ~fatal) =>
     Observed([pools   |-> pool_to_command_buffers,
               devices |-> command_buffer_to_device,
               states  |-> command_buffer_to_state,
               slots   |-> device_to_query_slots,
               cursor  |-> device_to_potential_next_free_index,
               fatal   |-> FALSE])
       \in SerialOutcomes(InitialTracker, CallsMade)

(***************************************************************************)
(* The submission post_submit writes to.                                   *)
(***************************************************************************)
\* A step of DoPostSubmitQueue on the queue for a call whose command buffers all
\* have tracker state and whose END markers all find an open BEGIN marker.
PlainPostSubmitStep(q) ==
  /\ PostSubmitStep(q)
  /\ AllRecorded(q)
  /\ UnmatchedEnds(Len(queue_to_markers[q]), MarkersInSubmit(q)) = 0

C21_Step ==
  \A q \in Queues :
    PlainPostSubmitStep(q) =>
      /\ ~fatal'
      /\ IF OwnSubmissionPending(q)
         THEN /\ Len(PendingOf(q)') = Len(PendingOf(q))
              /\ \A i \in 1..(Len(PendingOf(q)) - 1) : PendingOf(q)'[i] = PendingOf(q)[i]
         ELSE queue_to_submissions' = queue_to_submissions

\* C21: post_submit writes only to the submission that the pre_submit of the same
\* vkQueueSubmit call appended: it changes no older submission of the queue (no
\* timestamp, no marker), it does not take the last element of an empty list of
\* pending submissions, and when the submission of its call is not pending it
\* changes none.
C21_PostSubmitOwnSubmission == [][C21_Step]_vars

(***************************************************************************)
(* The life of a submission: pending, then emitted once.                   *)
(***************************************************************************)
\* The number of records written for a vkQueueSubmit call.
TimesWritten(call) == Cardinality({i \in 1..Len(written) : written[i].call = call})

C22_Step ==
  \A q \in Queues :
    \A i \in 1..Len(PendingOf(q)) :
      LET call == PendingOf(q)[i].meta_information.call IN
      (~fatal' /\ HasRecordedCommandBuffers(PendingOf(q)[i]))
      => /\ TimesWritten(call) = 0
         /\ IF call \in PendingCalls(q)'
            THEN TimesWritten(call)' = 0
            ELSE TimesWritten(call)' = 1

\* C22: a pending submission with a recorded command buffer has not been emitted;
\* a step either leaves it pending and not emitted, or removes it from the pending
\* submissions and writes exactly one record for it: it is neither emitted twice
\* nor dropped.
C22_EmittedExactlyOnce == [][C22_Step]_vars

(***************************************************************************)
(* Contract violations.                                                    *)
(***************************************************************************)
\* MarkCommandBufferEnd on the command buffer can return without a fatal assertion.
MarkEndCanReturn(cb) == ENABLED (MarkCommandBufferEnd(cb) /\ ~fatal')

\* MarkCommandBufferBegin on the command buffer can return without one.
MarkBeginCanReturn(cb) == ENABLED (MarkCommandBufferBegin(cb) /\ ~fatal')

\* UntrackCommandBuffers(device, pool, {cb}) can return without one.
UntrackCanReturn(device, pool, cb) ==
  ENABLED (UntrackCommandBuffers(device, pool, {cb}) /\ ~fatal')

C23_MarkEnd ==
  \A cb \in CommandBuffers :
    command_buffer_to_state[cb] = nullopt => ~MarkEndCanReturn(cb)

C23_MarkBegin ==
  \A cb \in CommandBuffers :
    command_buffer_to_state[cb] # nullopt => ~MarkBeginCanReturn(cb)

C23_Untrack ==
  \A cb \in CommandBuffers : \A device \in Devices : \A pool \in CommandPools :
    (/\ command_buffer_to_device[cb] # nullopt
     /\ command_buffer_to_device[cb] # Some(device))
    => ~UntrackCanReturn(device, pool, cb)

\* C23: whether or not the capture is on, mark_end on a command buffer without
\* state, mark_begin on a command buffer that has state, and untrack with a device
\* other than the one registered for the command buffer cannot return: each ends
\* in the fatal assertion.
C23_ContractViolationsFatal == C23_MarkEnd /\ C23_MarkBegin /\ C23_Untrack

(***************************************************************************)
(* Conservation of the slots.                                              *)
(***************************************************************************)
\* The references the manager holds to the slot.
HoldersOf(slot) == {r \in SlotRefs : r.slot = slot}

\* Every pending slot of the device has a holder.
Conserved ==
  \A s \in Slots : IsPending("d1", s) => HoldersOf(s) # {}

\* The application ends the recording of a command buffer it has ended already
\* (invalid use of vkEndCommandBuffer).
EndsRecordingTwice == \E cb \in ended : MarkCommandBufferEnd(cb)

C24_Step == (Conserved /\ ~EndsRecordingTwice) => Conserved'

\* C24: every pending slot of the device is referenced by a holder, which is a
\* command buffer state (begin slot, end slot or a marker's slot), a pending
\* submission (slots of its command buffers or of its completed markers) or an
\* open marker on a queue's marker stack, and no operation of the tracker drops
\* the last reference to a slot while it leaves the slot pending.
C24_SlotConservation == [][C24_Step]_vars

(***************************************************************************)
(* Two devices.                                                            *)
(***************************************************************************)
\* The vkQueueSubmit calls a step emits.
NewlyWritten == {written'[i].call : i \in (Len(written) + 1)..Len(written')}

\* The vkQueueSubmit calls whose submissions are pending on the queues of a device.
PendingCallsOfDevice(device) ==
  UNION {PendingCalls(q) : q \in {x \in Queues : QueueDevice[x] = device}}

C25_Step ==
  \A d \in Devices :
    CompleteSubmitsReturns(d) =>
      /\ \A q \in Queues : QueueDevice[q] # d =>
           queue_to_submissions'[q] = queue_to_submissions[q]
      /\ NewlyWritten \subseteq PendingCallsOfDevice(d)
      /\ \A other \in Devices \ {d} :
           device_to_query_slots'[other] = device_to_query_slots[other]

\* C25: a call of complete_submissions for a device leaves the pending submissions
\* of the queues of every other device as they are, emits only submissions of its
\* own queues, and changes no slot state of another device's pool.
C25_DeviceIsolation == [][C25_Step]_vars

====
